---------------------------- MODULE Spec2Model ----------------------------
(***************************************************************************)
(* A model of the statcalc numerical engine (djego/statcalc).              *)
(*                                                                         *)
(* The program computes with JavaScript numbers (IEEE doubles).  The       *)
(* linear-programming page and the distribution functions are modelled     *)
(* with exact integers of arbitrary size (Big), exact rationals (Q)        *)
(* wherever the program's values are rational, and fixed-point decimals    *)
(* where the program calls transcendental functions.  The sample sizes,    *)
(* the analysis of variance, the regression and the seasonal indices are   *)
(* modelled in doubles (F64), each operation rounded to nearest, ties to   *)
(* even, as the program rounds it.                                         *)
(***************************************************************************)
EXTENDS Integers, Sequences, FiniteSets, TLC

(***************************************************************************)
(* Arbitrary-size integers.  A magnitude is a little-endian sequence of    *)
(* limbs in 0..Base-1 without leading (high) zero limbs; a Big is a        *)
(* magnitude with a sign.  Every native product stays below 2^31.          *)
(***************************************************************************)
Base == 10^4

\* the index of the highest limb of m that is not zero, 0 if there is none
TopLimb(m) ==
  CHOOSE i \in 0..Len(m) :
    (i = 0 \/ m[i] # 0) /\ \A k \in (i + 1)..Len(m) : m[k] = 0

\* m without its leading (high) zero limbs
MagTrim(m) ==
  IF m = <<>> THEN m
  ELSE IF m[Len(m)] # 0 THEN m
  ELSE SubSeq(m, 1, TopLimb(m))

RECURSIVE MagOf(_)
MagOf(n) == IF n = 0 THEN <<>> ELSE <<n % Base>> \o MagOf(n \div Base)

Limb(m, i) == IF i <= Len(m) THEN m[i] ELSE 0

\* F(v), with v computed first, and once however often F uses it
Let(v, F(_)) == IF v = v THEN F(v) ELSE F(v)

LimbSum(a, b, i) == Limb(a, i) + Limb(b, i)

\* the carry into limb i of a + b, found by looking back for the nearest
\* limb whose sum is not Base - 1
Carry(a, b, i) ==
  IF \E j \in 1..(i - 1) :
       /\ LimbSum(a, b, j) >= Base
       /\ \A k \in (j + 1)..(i - 1) : LimbSum(a, b, k) = Base - 1
  THEN 1 ELSE 0

MagAdd(a, b) ==
  IF a = <<>> THEN b
  ELSE IF b = <<>> THEN a
  ELSE MagTrim([i \in 1..((IF Len(a) >= Len(b) THEN Len(a) ELSE Len(b)) + 1) |->
                  (LimbSum(a, b, i) + Carry(a, b, i)) % Base])

LimbDiff(a, b, i) == Limb(a, i) - Limb(b, i)

\* the borrow from limb i of a - b
Borrow(a, b, i) ==
  IF \E j \in 1..(i - 1) :
       /\ LimbDiff(a, b, j) < 0
       /\ \A k \in (j + 1)..(i - 1) : LimbDiff(a, b, k) = 0
  THEN 1 ELSE 0

\* a - b for magnitudes with a >= b
MagSub(a, b) ==
  IF b = <<>> THEN a
  ELSE MagTrim([i \in 1..Len(a) |->
                  (LimbDiff(a, b, i) + Base - Borrow(a, b, i)) % Base])

\* the highest limb in which a and b of one length differ
TopDiff(a, b) ==
  CHOOSE i \in 1..Len(a) :
    a[i] # b[i] /\ \A k \in (i + 1)..Len(a) : a[k] = b[k]

\* -1, 0 or 1 as a < b, a = b or a > b
MagCmp(a, b) ==
  IF Len(a) # Len(b) THEN (IF Len(a) < Len(b) THEN -1 ELSE 1)
  ELSE IF a = b THEN 0
  ELSE IF a[TopDiff(a, b)] < b[TopDiff(a, b)] THEN -1 ELSE 1

\* a * k for a native k in 0..Base-1
MagMulSmall(a, k) ==
  IF k = 0 \/ a = <<>> THEN <<>>
  ELSE MagAdd(MagTrim([i \in 1..Len(a) |-> (a[i] * k) % Base]),
              MagTrim(<<0>> \o [i \in 1..Len(a) |-> (a[i] * k) \div Base]))

MagShift(a, n) == IF a = <<>> THEN a ELSE [i \in 1..n |-> 0] \o a

\* the sum of a[i] * b[c + 1 - i] over i in lo..hi
RECURSIVE MagColumn(_, _, _, _, _)
MagColumn(a, b, c, lo, hi) ==
  IF lo > hi THEN 0
  ELSE IF lo = hi THEN a[lo] * b[c + 1 - lo]
  ELSE MagColumn(a, b, c, lo, (lo + hi) \div 2)
       + MagColumn(a, b, c, (lo + hi) \div 2 + 1, hi)

\* the magnitude whose limb c is col[c], each col[c] below Base^3
MagOfColumns(col) ==
  MagAdd(MagAdd(MagTrim([c \in 1..Len(col) |-> col[c] % Base]),
                MagTrim(<<0>> \o [c \in 1..Len(col) |-> (col[c] \div Base) % Base])),
         MagTrim(<<0, 0>> \o [c \in 1..Len(col) |-> col[c] \div (Base * Base)]))

\* a * b by columns; a column sum stays below 2^31 for up to 21 limbs
MagMul(a, b) ==
  IF a = <<>> \/ b = <<>> THEN <<>>
  ELSE MagOfColumns([c \in 1..(Len(a) + Len(b) - 1) |->
                       MagColumn(a, b, c,
                                 IF c > Len(b) THEN c + 1 - Len(b) ELSE 1,
                                 IF c < Len(a) THEN c ELSE Len(a))]
                    \o <<>>)

\* Division by a native k, limb st.i of a next: st.r is the remainder so far
\* and st.q the quotient limbs found, low limb first.
RECURSIVE MagDivSmallLoop(_, _, _)
MagDivSmallLoop(a, k, st) ==
  IF st.i = 0 THEN MagTrim(st.q)
  ELSE MagDivSmallLoop(a, k, [i |-> st.i - 1,
                              r |-> (st.r * Base + a[st.i]) % k,
                              q |-> <<(st.r * Base + a[st.i]) \div k>> \o st.q])

\* floor(a / k) for a native k in 1..Base-1
MagDivSmall(a, k) ==
  MagDivSmallLoop(a, k, [i |-> Len(a), r |-> 0, q |-> <<>>])

RECURSIVE QuotFix(_, _, _)
QuotFix(b, r, q) ==
  IF MagCmp(MagMulSmall(b, q), r) > 0 THEN QuotFix(b, r, q - 1) ELSE q

QuotCap(b, cur, est) ==
  IF est > Base - 1 THEN QuotFix(b, cur, Base - 1) ELSE QuotFix(b, cur, est)

\* the quotient limb cur \div b, for cur < b * Base: the estimate from the
\* top limbs, corrected downward
QuotLimb(b, cur) ==
  QuotCap(b, cur,
          (Limb(cur, Len(b) + 1) * Base + Limb(cur, Len(b))) \div b[Len(b)])

MagDivWith(b, st, cur, qd) ==
  [q |-> <<qd>> \o st.q, i |-> st.i - 1,
   rem |-> MagSub(cur, MagMulSmall(b, qd))]

MagDivLimb(b, st, cur) ==
  IF MagCmp(cur, b) < 0
  THEN [i |-> st.i - 1, rem |-> cur, q |-> <<0>> \o st.q]
  ELSE MagDivWith(b, st, cur, QuotLimb(b, cur))

\* Long division, limb st.i of a next: st.rem is the remainder so far and
\* st.q the quotient limbs found, low limb first; b has at least two limbs
\* and its top limb is at least Base \div 2.
RECURSIVE MagDivLoop(_, _, _)
MagDivLoop(a, b, st) ==
  IF st.i = 0 THEN MagTrim(st.q)
  ELSE MagDivLoop(a, b, MagDivLimb(b, st, MagTrim(<<a[st.i]>> \o st.rem)))

\* the top Len(b) - 1 limbs of the dividend na are the first remainder
MagDivScaled(na, nb) ==
  MagDivLoop(na, nb, [i |-> Len(na) - Len(nb) + 1,
                      rem |-> SubSeq(na, Len(na) - Len(nb) + 2, Len(na)),
                      q |-> <<>>])

\* floor(a / b) for magnitudes, b # 0
MagDiv(a, b) ==
  IF MagCmp(a, b) < 0 THEN <<>>
  ELSE IF Len(b) = 1 THEN MagDivSmall(a, b[1])
  ELSE MagDivScaled(MagMulSmall(a, Base \div (b[Len(b)] + 1)),
                    MagMulSmall(b, Base \div (b[Len(b)] + 1)))

Big(isNeg, m) == [mag |-> m, neg |-> isNeg /\ m # <<>>]
BigOf(n) == IF n < 0 THEN Big(TRUE, MagOf(-n)) ELSE Big(FALSE, MagOf(n))
BigZero == Big(FALSE, <<>>)
BigOne == Big(FALSE, <<1>>)
BigIsZero(a) == a.mag = <<>>
BigSign(a) == IF a.mag = <<>> THEN 0 ELSE IF a.neg THEN -1 ELSE 1
BigNeg(a) == IF a.neg THEN Big(FALSE, a.mag) ELSE Big(TRUE, a.mag)
BigAbs(a) == IF a.neg THEN Big(FALSE, a.mag) ELSE a

\* |a| - |b| with the sign isNeg if |a| >= |b|, and its opposite if not
BigDiffer(isNeg, a, b) ==
  IF MagCmp(a.mag, b.mag) >= 0 THEN Big(isNeg, MagSub(a.mag, b.mag))
  ELSE Big(~isNeg, MagSub(b.mag, a.mag))

BigAdd(a, b) ==
  IF a.neg = b.neg THEN Big(a.neg, MagAdd(a.mag, b.mag))
  ELSE BigDiffer(a.neg, a, b)

BigSub(a, b) ==
  IF a.neg # b.neg THEN Big(a.neg, MagAdd(a.mag, b.mag))
  ELSE BigDiffer(a.neg, a, b)

BigMul(a, b) ==
  IF a.neg = b.neg THEN Big(FALSE, MagMul(a.mag, b.mag))
  ELSE Big(TRUE, MagMul(a.mag, b.mag))

\* a / b rounded toward zero, b # 0
BigDiv(a, b) ==
  IF a.neg = b.neg THEN Big(FALSE, MagDiv(a.mag, b.mag))
  ELSE Big(TRUE, MagDiv(a.mag, b.mag))

\* -1, 0 or 1 as a < b, a = b or a > b
BigCmp(a, b) ==
  IF a.neg # b.neg THEN (IF a.neg THEN -1 ELSE 1)
  ELSE IF a.neg THEN MagCmp(b.mag, a.mag)
  ELSE MagCmp(a.mag, b.mag)

\* 10^k as a Big
BigPow10(k) == Big(FALSE, MagShift(<<10^(k % 4)>>, k \div 4))

(***************************************************************************)
(* JavaScript numbers.  A finite number is an exact rational num/den with  *)
(* den > 0; NaN is 0/0.  Rounding of doubles is not modelled: the decimal  *)
(* inputs and every value computed from them by + - * / are kept exactly.  *)
(***************************************************************************)
Q(n, d) == [num |-> n, den |-> d]
QInt(n) == Q(BigOf(n), BigOne)
\* the decimal literal digits * 10^(-decimals)
QDec(digits, decimals) == Q(BigOf(digits), BigPow10(decimals))
NaN == Q(BigZero, BigZero)
isNaN(p) == BigIsZero(p.den)

QNeg(p) == Q(BigNeg(p.num), p.den)

QAdd(p, q) ==
  IF p.den = q.den THEN Q(BigAdd(p.num, q.num), p.den)
  ELSE Q(BigAdd(BigMul(p.num, q.den), BigMul(q.num, p.den)), BigMul(p.den, q.den))

QSub(p, q) == QAdd(p, QNeg(q))
QMul(p, q) ==
  Q(BigMul(p.num, q.num),
    IF p.den = BigOne THEN q.den
    ELSE IF q.den = BigOne THEN p.den
    ELSE BigMul(p.den, q.den))

\* p / q for q # 0
QDiv(p, q) ==
  Q(IF q.num.neg THEN BigNeg(BigMul(p.num, q.den)) ELSE BigMul(p.num, q.den),
    BigMul(p.den, BigAbs(q.num)))

QCmp(p, q) ==
  IF p.den = q.den THEN BigCmp(p.num, q.num)
  ELSE BigCmp(BigMul(p.num, q.den), BigMul(q.num, p.den))

QLt(p, q) == QCmp(p, q) < 0
QLe(p, q) == QCmp(p, q) <= 0
QGt(p, q) == QCmp(p, q) > 0
QGe(p, q) == QCmp(p, q) >= 0
QEq(p, q) == QCmp(p, q) = 0
QAbs(p) == Q(BigAbs(p.num), p.den)
QMax(p, q) == IF QGe(p, q) THEN p ELSE q

(***************************************************************************)
(* Text of an input field.  A text that parseFloat reads is the decimal    *)
(* literal it denotes (digits and the number of fraction digits); every    *)
(* other text ("" or "abc") is BadTxt, which parseFloat turns into NaN.    *)
(***************************************************************************)
Txt(d, k) == [ok |-> TRUE, digits |-> d, decimals |-> k]
BadTxt == [ok |-> FALSE, digits |-> 0, decimals |-> 0]
parseFloat(t) == IF t.ok THEN QDec(t.digits, t.decimals) ELSE NaN

Null == <<>>
NoError == "null"

(***************************************************************************)
(* The linear-programming page (src/app/linear-programming/page.tsx).      *)
(***************************************************************************)
VARIABLES optimizationType, objectiveX, objectiveY, constraints, results,
          error, edits

\* The arguments of a call of a library function, and what its calls
\* returned (the page's own steps leave both alone).
VARIABLES args, returned

callVars == <<args, returned>>

form == <<optimizationType, objectiveX, objectiveY, constraints>>
lpVars == <<optimizationType, objectiveX, objectiveY, constraints, results,
            error, edits>>

(***************************************************************************)
(* The other pages.  Each is a component of its own, and its state is one  *)
(* record with a field for every useState of the component.                *)
(***************************************************************************)
\* the sample-size page (src/unnamed/part_001) and the ANOVA & Regression
\* page (src/app/confidence-interval/page.tsx, from line 1675)
VARIABLES sampleSizePage, anovaPage

\* the hypothesis-test page (page.tsx, lines 572-1674), the
\* confidence-interval page (page.tsx, lines 1-570) and the layout that
\* every page is shown in (src/components/calculator-layout.tsx)
VARIABLES hypothesisPage, intervalPage, layout

pages == <<sampleSizePage, anovaPage, hypothesisPage, intervalPage, layout>>

\* The text of a data field: the tokens between its commas and spaces.
NoData == <<>>

SampleSizeCalculator ==
  [parameterType |-> "proportion", confidenceLevel |-> 95,
   marginOfError |-> Txt(5, 2), proportion |-> Txt(5, 1), sigma |-> BadTxt,
   populationSize |-> BadTxt, results |-> Null, error |-> NoError]

AnovaRegressionCalculator ==
  [activeTab |-> "anova", group1 |-> NoData, group2 |-> NoData,
   group3 |-> NoData, anovaResults |-> Null, xData |-> NoData,
   yData |-> NoData, regressionResults |-> Null, error |-> NoError]

\* filled counts the inputs, from the top of the page, that are behind the
\* one filled in last
HypothesisTestCalculator ==
  [testType |-> "one-sample-mean", alternative |-> "two-tailed",
   alpha |-> Txt(5, 2), sigmaKnowledge |-> "unknown", sampleMean |-> BadTxt,
   hypothesizedMean |-> BadTxt, stdDev |-> BadTxt, sampleSize |-> BadTxt,
   successes |-> BadTxt, proportionN |-> BadTxt,
   hypothesizedProportion |-> BadTxt, mean1 |-> BadTxt, mean2 |-> BadTxt,
   s1 |-> BadTxt, s2 |-> BadTxt, n1 |-> BadTxt, n2 |-> BadTxt,
   equalVariance |-> "no", results |-> Null, error |-> NoError,
   manualPValue |-> BadTxt, filled |-> 0]

ConfidenceIntervalCalculator ==
  [statisticType |-> "mean", inputMode |-> "summary",
   sigmaKnowledge |-> "unknown", confidenceLevel |-> 95, rawData |-> NoData,
   sampleMean |-> BadTxt, sampleStdDev |-> BadTxt, sampleSize |-> BadTxt,
   populationSigma |-> BadTxt, successes |-> BadTxt, proportionN |-> BadTxt,
   results |-> Null, error |-> NoError, filled |-> 0]

\* CalculatorLayout with its AppSidebar as a page mounts it, before the
\* first render: rendered is the number of renders, shown the mobileMenuOpen
\* that the last render read, onClose the function that the last render
\* made (line 49 makes a new one in every render), and deps the dependencies
\* that the sidebar's effect last ran with
MountedAt(pathname) ==
  [mobileMenuOpen |-> FALSE, pathname |-> pathname, rendered |-> 0,
   shown |-> FALSE, onClose |-> 0, deps |-> Null]

CalculatorLayout == MountedAt("/linear-programming")

PagesAsBuilt ==
  /\ sampleSizePage = SampleSizeCalculator
  /\ anovaPage = AnovaRegressionCalculator
  /\ hypothesisPage = HypothesisTestCalculator
  /\ intervalPage = ConfidenceIntervalCalculator
  /\ layout = CalculatorLayout

Constraint(id, cxt, cyt, ty, rt) ==
  [id |-> id, coeffX |-> cxt, coeffY |-> cyt, type |-> ty, rhs |-> rt]

ConstraintTypes == {"<=", ">=", "="}
OptimizationTypes == {"maximize", "minimize"}

\* the literals 1e-10 (lines 78, 89) and 1e-6 (lines 93, 180)
oneEMinus10 == QDec(1, 10)
oneEMinus6 == QDec(1, 6)
zero == QInt(0)

findIntersection(a1, b1, c1, a2, b2, c2) ==
  LET det == QSub(QMul(a1, b2), QMul(a2, b1))
  IN  IF QLt(QAbs(det), oneEMinus10) THEN Null
      ELSE <<[x |-> QDiv(QSub(QMul(c1, b2), QMul(c2, b1)), det),
              y |-> QDiv(QSub(QMul(a1, c2), QMul(a2, c1)), det)]>>

tolerance == oneEMinus6

\* isFeasible with the "=" check forgotten
isFeasibleNoEquality(x, y, parsedConstraints) ==
  IF QLt(x, QNeg(oneEMinus10)) \/ QLt(y, QNeg(oneEMinus10)) THEN FALSE
  ELSE \A k \in 1..Len(parsedConstraints) :
         LET c   == parsedConstraints[k]
             lhs == QAdd(QMul(c.a, x), QMul(c.b, y))
         IN  /\ ~(c.type = "<=" /\ QGt(lhs, QAdd(c.rhs, tolerance)))
             /\ ~(c.type = ">=" /\ QLt(lhs, QSub(c.rhs, tolerance)))

\* isFeasible with the ">=" check forgotten
isFeasibleNoLowerSide(x, y, parsedConstraints) ==
  IF QLt(x, QNeg(oneEMinus10)) \/ QLt(y, QNeg(oneEMinus10)) THEN FALSE
  ELSE \A k \in 1..Len(parsedConstraints) :
         LET c   == parsedConstraints[k]
             lhs == QAdd(QMul(c.a, x), QMul(c.b, y))
         IN  /\ ~(c.type = "<=" /\ QGt(lhs, QAdd(c.rhs, tolerance)))
             /\ ~(c.type = "=" /\ QGt(QAbs(QSub(lhs, c.rhs)), tolerance))

isFeasible(x, y, parsedConstraints) ==
  IF QLt(x, QNeg(oneEMinus10)) \/ QLt(y, QNeg(oneEMinus10)) THEN FALSE
  ELSE \A k \in 1..Len(parsedConstraints) :
         LET c   == parsedConstraints[k]
             lhs == QAdd(QMul(c.a, x), QMul(c.b, y))
         IN  /\ ~(c.type = "<=" /\ QGt(lhs, QAdd(c.rhs, tolerance)))
             /\ ~(c.type = ">=" /\ QLt(lhs, QSub(c.rhs, tolerance)))
             /\ ~(c.type = "=" /\ QGt(QAbs(QSub(lhs, c.rhs)), tolerance))

\* lines 113-126: the parsed constraints, in order
parseConstraints(cs) ==
  [k \in 1..Len(cs) |->
     [a |-> parseFloat(cs[k].coeffX), b |-> parseFloat(cs[k].coeffY),
      type |-> cs[k].type, rhs |-> parseFloat(cs[k].rhs)]]

\* lines 129-136: x = 0, y = 0, then one line per constraint
allLinesOf(parsedConstraints) ==
  <<[a |-> QInt(1), b |-> QInt(0), c |-> QInt(0)],
    [a |-> QInt(0), b |-> QInt(1), c |-> QInt(0)]>>
  \o [k \in 1..Len(parsedConstraints) |->
        [a |-> parsedConstraints[k].a, b |-> parsedConstraints[k].b,
         c |-> parsedConstraints[k].rhs]]

\* lines 139-155: the intersections of the pairs (i, j), i < j, in loop order
RECURSIVE candidatesFrom(_, _, _)
candidatesFrom(allLines, i, j) ==
  IF i > Len(allLines) THEN <<>>
  ELSE IF j > Len(allLines) THEN candidatesFrom(allLines, i + 1, i + 2)
  ELSE findIntersection(allLines[i].a, allLines[i].b, allLines[i].c,
                        allLines[j].a, allLines[j].b, allLines[j].c)
       \o candidatesFrom(allLines, i, j + 1)

candidatePointsOf(allLines) == candidatesFrom(allLines, 1, 2)

\* lines 158-170: the feasible candidates, clamped, with their objective
RECURSIVE feasibleFrom(_, _, _, _, _)
feasibleFrom(candidatePoints, k, parsedConstraints, cx, cy) ==
  IF k > Len(candidatePoints) THEN <<>>
  ELSE LET point == candidatePoints[k]
           rest  == feasibleFrom(candidatePoints, k + 1, parsedConstraints, cx, cy)
       IN  IF isFeasible(point.x, point.y, parsedConstraints)
           THEN <<[x |-> QMax(zero, point.x),
                   y |-> QMax(zero, point.y),
                   objectiveValue |-> QAdd(QMul(cx, point.x), QMul(cy, point.y)),
                   isOptimal |-> FALSE]>> \o rest
           ELSE rest

\* isDuplicate on the x coordinate alone
isDuplicateByX(uniquePoints, p) ==
  \E k \in 1..Len(uniquePoints) :
    QLt(QAbs(QSub(uniquePoints[k].x, p.x)), oneEMinus6)

\* line 180
isDuplicate(uniquePoints, p) ==
  \E k \in 1..Len(uniquePoints) :
    /\ QLt(QAbs(QSub(uniquePoints[k].x, p.x)), oneEMinus6)
    /\ QLt(QAbs(QSub(uniquePoints[k].y, p.y)), oneEMinus6)

\* lines 178-184
RECURSIVE removeDuplicates(_, _, _)
removeDuplicates(feasiblePoints, k, uniquePoints) ==
  IF k > Len(feasiblePoints) THEN uniquePoints
  ELSE removeDuplicates(feasiblePoints, k + 1,
         IF isDuplicate(uniquePoints, feasiblePoints[k]) THEN uniquePoints
         ELSE Append(uniquePoints, feasiblePoints[k]))

\* isBetter with the minimize branch forgotten
isBetterMaximizeOnly(optType, candidate, incumbent) ==
  QGt(candidate.objectiveValue, incumbent.objectiveValue)

\* isBetter with >= and <= for > and <: a later vertex of equal objective
\* replaces the current optimum
isBetterOrEqual(optType, candidate, incumbent) ==
  IF optType = "maximize" THEN QGe(candidate.objectiveValue, incumbent.objectiveValue)
  ELSE QLe(candidate.objectiveValue, incumbent.objectiveValue)

isBetter(optType, candidate, incumbent) ==
  IF optType = "maximize" THEN QGt(candidate.objectiveValue, incumbent.objectiveValue)
  ELSE QLt(candidate.objectiveValue, incumbent.objectiveValue)

\* lines 187-198
RECURSIVE findOptimal(_, _, _, _)
findOptimal(uniquePoints, optType, i, optimalIndex) ==
  IF i > Len(uniquePoints) THEN optimalIndex
  ELSE findOptimal(uniquePoints, optType, i + 1,
         IF isBetter(optType, uniquePoints[i], uniquePoints[optimalIndex])
         THEN i ELSE optimalIndex)

\* line 206: Array.prototype.sort with (a, b) => b.objectiveValue - a.objectiveValue
\* (stable, descending objective)
RECURSIVE insertSorted(_, _)
insertSorted(sorted, p) ==
  IF sorted = <<>> THEN <<p>>
  ELSE IF QGe(Head(sorted).objectiveValue, p.objectiveValue)
       THEN <<Head(sorted)>> \o insertSorted(Tail(sorted), p)
       ELSE <<p>> \o sorted

RECURSIVE sortByObjective(_, _, _)
sortByObjective(points, k, sorted) ==
  IF k > Len(points) THEN sorted
  ELSE sortByObjective(points, k + 1, insertSorted(sorted, points[k]))

\* lines 101-211: what handleCalculate leaves in results and error
handleCalculateOutcome(optType, objX, objY, cs) ==
  LET cx == parseFloat(objX)
      cy == parseFloat(objY)
      parsedConstraints == parseConstraints(cs)
      feasiblePoints ==
        feasibleFrom(candidatePointsOf(allLinesOf(parsedConstraints)), 1,
                     parsedConstraints, cx, cy)
      uniquePoints == removeDuplicates(feasiblePoints, 1, <<>>)
      optimalIndex == findOptimal(uniquePoints, optType, 2, 1)
      marked == [uniquePoints EXCEPT ![optimalIndex].isOptimal = TRUE]
  IN  IF isNaN(cx) \/ isNaN(cy)
      THEN [results |-> Null,
            error |-> "Please enter valid objective function coefficients"]
      ELSE IF \E k \in 1..Len(cs) :
                \/ isNaN(parsedConstraints[k].a)
                \/ isNaN(parsedConstraints[k].b)
                \/ isNaN(parsedConstraints[k].rhs)
      THEN [results |-> Null, error |-> "Please enter valid constraint coefficients"]
      ELSE IF Len(feasiblePoints) = 0
      THEN [results |-> Null,
            error |-> "No feasible solution exists for the given constraints"]
      ELSE [results |->
              <<[optimalX |-> uniquePoints[optimalIndex].x,
                 optimalY |-> uniquePoints[optimalIndex].y,
                 optimalValue |-> uniquePoints[optimalIndex].objectiveValue,
                 feasiblePoints |-> sortByObjective(marked, 1, <<>>),
                 objectiveCoeffX |-> cx,
                 objectiveCoeffY |-> cy,
                 optimizationType |-> optType]>>,
            error |-> NoError]

(***************************************************************************)
(* The page as a state machine.  The form fields hold texts; results and   *)
(* error are what the last handleCalculate left.  edits counts the form    *)
(* edits made since the starting form and is capped by MaxEdits.           *)
(***************************************************************************)
MaxEdits == 1
MaxConstraints == 3

CoeffTexts == {Txt(0, 0), Txt(1, 0), Txt(2, 0), BadTxt}
ObjectiveTexts == {Txt(3, 0), Txt(2, 0), Txt(0, 0), Txt(-1, 0), BadTxt}
RhsTexts == {Txt(4, 0), Txt(6, 0), Txt(39999995, 7), Txt(-1, 10),
             Txt(-100005, 11), BadTxt}

\* lines 45-53: the page as constructed
DefaultForm ==
  <<"maximize", Txt(3, 0), Txt(2, 0),
    <<Constraint(1, Txt(1, 0), Txt(1, 0), "<=", Txt(4, 0)),
      Constraint(2, Txt(2, 0), Txt(1, 0), "<=", Txt(6, 0))>> >>

\* Forms a user reaches from DefaultForm by edits alone (results and error
\* still null): the default problem with either relation and either first
\* coefficient, and two problems whose right-hand sides differ from a
\* feasibility boundary by less than the solver's tolerances, and one whose
\* second constraint has a slope of 1e-7.
StartForms ==
  { <<ot, Txt(3, 0), Txt(2, 0),
      <<Constraint(1, Txt(1, 0), Txt(1, 0), t1, Txt(4, 0)),
        Constraint(2, a2, Txt(1, 0), t2, Txt(6, 0))>> >> :
      ot \in OptimizationTypes, t1 \in ConstraintTypes, t2 \in ConstraintTypes,
      a2 \in {Txt(1, 0), Txt(2, 0)} }
  \cup
  { <<ot, Txt(3, 0), Txt(2, 0),
      <<Constraint(1, Txt(1, 0), Txt(1, 0), "=", Txt(4, 0)),
        Constraint(2, Txt(0, 0), Txt(1, 0), "<=", Txt(39999995, 7))>> >> :
      ot \in OptimizationTypes }
  \cup
  { <<ot, Txt(3, 0), Txt(2, 0),
      <<Constraint(1, Txt(1, 0), Txt(0, 0), "=", Txt(-1, 10)),
        Constraint(2, Txt(1, 0), Txt(1, 0), "<=", Txt(-100005, 11))>> >> :
      ot \in OptimizationTypes }
  \cup
  { <<ot, Txt(3, 0), Txt(2, 0),
      <<Constraint(1, Txt(1, 0), Txt(10000000, 0), "<=", Txt(5, 0)),
        Constraint(2, Txt(-1, 7), Txt(1, 0), ">=", Txt(0, 0))>> >> :
      ot \in OptimizationTypes }

InitLP ==
  /\ \E f \in StartForms :
       /\ optimizationType = f[1]
       /\ objectiveX = f[2]
       /\ objectiveY = f[3]
       /\ constraints = f[4]
  /\ results = Null
  /\ error = NoError
  /\ edits = 0
  /\ args = Null
  /\ returned = Null
  /\ PagesAsBuilt

Edited == edits < MaxEdits /\ edits' = edits + 1 /\ UNCHANGED <<callVars, pages>>

setOptimizationType(v) ==
  /\ Edited
  /\ optimizationType' = v
  /\ UNCHANGED <<objectiveX, objectiveY, constraints, results, error>>

setObjectiveX(v) ==
  /\ Edited
  /\ objectiveX' = v
  /\ UNCHANGED <<optimizationType, objectiveY, constraints, results, error>>

setObjectiveY(v) ==
  /\ Edited
  /\ objectiveY' = v
  /\ UNCHANGED <<optimizationType, objectiveX, constraints, results, error>>

constraintIds == {constraints[k].id : k \in 1..Len(constraints)}

\* Date.now().toString(): an id no constraint of the list has
freshId == CHOOSE n \in 1..(Len(constraints) + 1) : n \notin constraintIds

\* lines 55-57
addConstraint ==
  /\ Edited
  /\ Len(constraints) < MaxConstraints
  /\ constraints' =
       Append(constraints,
              Constraint(freshId, Txt(1, 0), Txt(1, 0), "<=", Txt(10, 0)))
  /\ UNCHANGED <<optimizationType, objectiveX, objectiveY, results, error>>

\* lines 59-63
removeConstraint(id) ==
  /\ Edited
  /\ constraints' =
       IF Len(constraints) > 1
       THEN SelectSeq(constraints, LAMBDA c : c.id # id)
       ELSE constraints
  /\ UNCHANGED <<optimizationType, objectiveX, objectiveY, results, error>>

\* lines 65-67
updateConstraint(id, field, value) ==
  /\ Edited
  /\ constraints' =
       [k \in 1..Len(constraints) |->
          IF constraints[k].id = id
          THEN [constraints[k] EXCEPT ![field] = value]
          ELSE constraints[k]]
  /\ UNCHANGED <<optimizationType, objectiveX, objectiveY, results, error>>

\* lines 101-211
handleCalculate ==
  \E out \in {handleCalculateOutcome(optimizationType, objectiveX, objectiveY,
                                     constraints)} :
      /\ results' = out.results
      /\ error' = out.error
      /\ UNCHANGED <<optimizationType, objectiveX, objectiveY, constraints, edits>>
      /\ UNCHANGED <<callVars, pages>>

NextLP ==
  \/ \E v \in OptimizationTypes : setOptimizationType(v)
  \/ \E v \in ObjectiveTexts : setObjectiveX(v)
  \/ \E v \in ObjectiveTexts : setObjectiveY(v)
  \/ addConstraint
  \/ \E id \in constraintIds : removeConstraint(id)
  \/ \E id \in constraintIds, v \in CoeffTexts : updateConstraint(id, "coeffX", v)
  \/ \E id \in constraintIds, v \in CoeffTexts : updateConstraint(id, "coeffY", v)
  \/ \E id \in constraintIds, v \in ConstraintTypes : updateConstraint(id, "type", v)
  \/ \E id \in constraintIds, v \in RhsTexts : updateConstraint(id, "rhs", v)
  \/ handleCalculate

SpecLP == InitLP /\ [][NextLP]_lpVars

(***************************************************************************)
(* Properties of the linear-programming page.  A step that changes neither *)
(* the form nor edits and is not a stuttering step is a handleCalculate    *)
(* step; the properties relate what it leaves to the form it read.         *)
(***************************************************************************)
CalcStep == UNCHANGED <<optimizationType, objectiveX, objectiveY, constraints, edits>>

NoFeasibleMessage == "No feasible solution exists for the given constraints"

cxOf == parseFloat(objectiveX)
cyOf == parseFloat(objectiveY)
parsedOf == parseConstraints(constraints)

ParsedOK ==
  /\ ~isNaN(cxOf) /\ ~isNaN(cyOf)
  /\ \A k \in 1..Len(constraints) :
       ~isNaN(parsedOf[k].a) /\ ~isNaN(parsedOf[k].b) /\ ~isNaN(parsedOf[k].rhs)

Lhs(c, px, py) == QAdd(QMul(c.a, px), QMul(c.b, py))
Objective(px, py) == QAdd(QMul(cxOf, px), QMul(cyOf, py))

\* every user constraint holds at (px, py) within 1e-6
WithinTolerance(px, py) ==
  \A k \in 1..Len(constraints) :
    LET c == parsedOf[k]
    IN  /\ c.type = "<=" => QLe(Lhs(c, px, py), QAdd(c.rhs, oneEMinus6))
        /\ c.type = ">=" => QGe(Lhs(c, px, py), QSub(c.rhs, oneEMinus6))
        /\ c.type = "=" => QLe(QAbs(QSub(Lhs(c, px, py), c.rhs)), oneEMinus6)

\* the pairwise intersections of x = 0, y = 0 and the constraint lines
Candidates ==
  LET pts == candidatePointsOf(allLinesOf(parsedOf))
  IN  {pts[k] : k \in 1..Len(pts)}

PassesFilter(q) ==
  /\ QGe(q.x, QNeg(oneEMinus10))
  /\ QGe(q.y, QNeg(oneEMinus10))
  /\ WithinTolerance(q.x, q.y)

\* two "=" constraints with the same coefficients whose right-hand sides
\* are more than 2e-6 apart: no point is within 1e-6 of both
ContradictoryEqualities ==
  \E i, j \in 1..Len(constraints) :
    /\ parsedOf[i].type = "=" /\ parsedOf[j].type = "="
    /\ QEq(parsedOf[i].a, parsedOf[j].a) /\ QEq(parsedOf[i].b, parsedOf[j].b)
    /\ QGt(QSub(parsedOf[i].rhs, parsedOf[j].rhs), QAdd(oneEMinus6, oneEMinus6))

Reported(r) == {r.feasiblePoints[k] : k \in 1..Len(r.feasiblePoints)}
Flagged(r) == {p \in Reported(r) : p.isOptimal}

OptimumDominates(r) ==
  /\ Cardinality(Flagged(r)) = 1
  /\ \A o \in Flagged(r) :
       /\ r.optimalX = o.x /\ r.optimalY = o.y /\ r.optimalValue = o.objectiveValue
       /\ \A p \in Reported(r) :
            IF r.optimizationType = "maximize"
            THEN QGe(o.objectiveValue, p.objectiveValue)
            ELSE QLe(o.objectiveValue, p.objectiveValue)

IsDefaultProblem ==
  <<optimizationType, objectiveX, objectiveY, constraints>> = DefaultForm

\* C1: the vertex handleCalculate flags isOptimal and reports as optimalX,
\* optimalY, optimalValue has an objective >= that of every reported vertex
\* when maximizing and <= when minimizing; for maximize 3x+2y subject to
\* x+y<=4, 2x+y<=6 the reported optimum is (2, 2) with objective 10.
C1_OptimumDominates ==
  [][CalcStep =>
       /\ results' # Null =>
            /\ results'[1].optimizationType = optimizationType
            /\ OptimumDominates(results'[1])
       /\ IsDefaultProblem =>
            /\ results' # Null
            /\ QEq(results'[1].optimalX, QInt(2))
            /\ QEq(results'[1].optimalY, QInt(2))
            /\ QEq(results'[1].optimalValue, QInt(10))]_lpVars

C1_Witness ==
  /\ edits = 0 /\ IsDefaultProblem /\ results # Null
  /\ Len(results[1].feasiblePoints) = 4
  /\ QEq(results[1].optimalValue, QInt(10))
  /\ \E p \in Reported(results[1]) :
       ~p.isOptimal /\ QEq(p.objectiveValue, QInt(9))

\* C2: when no pairwise intersection passes the feasibility filter (in
\* particular with contradictory equality constraints), handleCalculate
\* ends with the infeasibility error and results null.
C2_InfeasibleReported ==
  [][(CalcStep /\ ParsedOK
        /\ ((\A q \in Candidates : ~PassesFilter(q)) \/ ContradictoryEqualities))
       => (error' = NoFeasibleMessage /\ results' = Null)]_lpVars

C2_Witness ==
  /\ edits = 0 /\ ParsedOK /\ ContradictoryEqualities
  /\ Candidates # {}
  /\ error = NoFeasibleMessage /\ results = Null

(***************************************************************************)
(* The feasible region itself, without tolerances.  The region lies in the *)
(* quadrant x, y >= 0, so when it is not empty it has a vertex, and its    *)
(* vertices are the feasible intersections of two of its boundary lines.   *)
(* Its directions of recession are spanned by directions along the         *)
(* boundary lines.                                                         *)
(***************************************************************************)
ExactlyFeasible(px, py) ==
  /\ QGe(px, zero) /\ QGe(py, zero)
  /\ \A k \in 1..Len(constraints) :
       LET c == parsedOf[k]
       IN  /\ c.type = "<=" => QLe(Lhs(c, px, py), c.rhs)
           /\ c.type = ">=" => QGe(Lhs(c, px, py), c.rhs)
           /\ c.type = "=" => QEq(Lhs(c, px, py), c.rhs)

ExactIntersections ==
  LET ls == allLinesOf(parsedOf)
  IN  {[x |-> QDiv(QSub(QMul(ls[i].c, ls[j].b), QMul(ls[j].c, ls[i].b)),
                   QSub(QMul(ls[i].a, ls[j].b), QMul(ls[j].a, ls[i].b))),
        y |-> QDiv(QSub(QMul(ls[i].a, ls[j].c), QMul(ls[j].a, ls[i].c)),
                   QSub(QMul(ls[i].a, ls[j].b), QMul(ls[j].a, ls[i].b)))] :
         <<i, j>> \in {ij \in (1..Len(ls)) \X (1..Len(ls)) :
                        /\ ij[1] < ij[2]
                        /\ ~QEq(QMul(ls[ij[1]].a, ls[ij[2]].b),
                                QMul(ls[ij[2]].a, ls[ij[1]].b))}}

Vertices == {p \in ExactIntersections : ExactlyFeasible(p.x, p.y)}
RegionNonEmpty == Vertices # {}

BoundaryDirections ==
  LET ls == allLinesOf(parsedOf)
  IN  UNION {{[x |-> ls[k].b, y |-> QNeg(ls[k].a)],
              [x |-> QNeg(ls[k].b), y |-> ls[k].a]} : k \in 1..Len(ls)}

RecessionDirections ==
  {d \in BoundaryDirections :
     /\ QGe(d.x, zero) /\ QGe(d.y, zero)
     /\ ~(QEq(d.x, zero) /\ QEq(d.y, zero))
     /\ \A k \in 1..Len(constraints) :
          LET c == parsedOf[k]
          IN  /\ c.type = "<=" => QLe(Lhs(c, d.x, d.y), zero)
              /\ c.type = ">=" => QGe(Lhs(c, d.x, d.y), zero)
              /\ c.type = "=" => QEq(Lhs(c, d.x, d.y), zero)}

RegionBounded == RecessionDirections = {}

\* the objective improves without bound along some direction of recession
ObjectiveUnbounded ==
  \E d \in RecessionDirections :
    IF optimizationType = "maximize" THEN QGt(Objective(d.x, d.y), zero)
    ELSE QLt(Objective(d.x, d.y), zero)

IsTrueOptimum(v) ==
  /\ \E p \in Vertices : QEq(Objective(p.x, p.y), v)
  /\ \A p \in Vertices :
       IF optimizationType = "maximize" THEN QGe(v, Objective(p.x, p.y))
       ELSE QLe(v, Objective(p.x, p.y))

\* C3: for an LP with a non-empty feasible region whose objective is
\* unbounded in the requested direction, handleCalculate shows an error
\* message and stores no optimal solution.
C3_UnboundedReported ==
  [][(CalcStep /\ ParsedOK /\ RegionNonEmpty /\ ObjectiveUnbounded)
       => (error' # NoError /\ results' = Null)]_lpVars

\* C4: for an LP whose feasible region is non-empty and bounded, the
\* reported optimalValue is the maximum (minimum) of cx*x+cy*y over the
\* whole feasible region.
C4_OptimumOfRegion ==
  [][(CalcStep /\ ParsedOK /\ RegionNonEmpty /\ RegionBounded)
       => (results' # Null /\ IsTrueOptimum(results'[1].optimalValue))]_lpVars

SatisfiesAsReported(p) ==
  QGe(p.x, zero) /\ QGe(p.y, zero) /\ WithinTolerance(p.x, p.y)

\* C5 as stated: every reported vertex has x, y >= 0 and satisfies every
\* user constraint within 1e-6 at its reported (clamped) coordinates.
C5_FeasibleAsReported ==
  [][(CalcStep /\ results' # Null)
       => \A p \in Reported(results'[1]) : SatisfiesAsReported(p)]_lpVars

ClampOf(p, q) == p.x = QMax(zero, q.x) /\ p.y = QMax(zero, q.y)

\* C5 as amended: every reported vertex has x, y >= 0 and is the clamp
\* max(0, .) of a pairwise intersection whose own coordinates are >= -1e-10
\* and satisfy every user constraint within 1e-6.
C5_FeasibleBeforeClamp ==
  [][(CalcStep /\ results' # Null)
       => \A p \in Reported(results'[1]) :
            /\ QGe(p.x, zero) /\ QGe(p.y, zero)
            /\ \E q \in Candidates : ClampOf(p, q) /\ PassesFilter(q)]_lpVars

\* a reported vertex that the clamp moved
C5_Witness ==
  /\ edits = 0 /\ results # Null
  /\ \E p \in Reported(results[1]) :
       \E q \in Candidates :
         ClampOf(p, q) /\ PassesFilter(q) /\ QLt(q.x, zero) /\ QEq(p.x, zero)

(***************************************************************************)
(* Fixed-point decimals for the functions that call Math.exp, Math.log and *)
(* Math.sqrt.  A value v is the Big v * Base^FracLimbs, so sums,           *)
(* differences and comparisons are those of Big; products and quotients    *)
(* are rounded toward zero at the last fractional digit.                   *)
(***************************************************************************)
FracLimbs == 5

MagDrop(m, n) == IF Len(m) <= n THEN <<>> ELSE SubSeq(m, n + 1, Len(m))

DOne == Big(FALSE, MagShift(<<1>>, FracLimbs))
DInt(n) == Big(n < 0, MagShift(MagOf(IF n < 0 THEN -n ELSE n), FracLimbs))

\* the literal int.g1g2g3..., each g a group of four decimal digits
DLit(isNeg, int, groups) ==
  Big(isNeg,
      MagTrim([i \in 1..FracLimbs |->
                 IF FracLimbs + 1 - i <= Len(groups)
                 THEN groups[FracLimbs + 1 - i] ELSE 0] \o MagOf(int)))

DMul(a, b) ==
  IF a.neg = b.neg THEN Big(FALSE, MagDrop(MagMul(a.mag, b.mag), FracLimbs))
  ELSE Big(TRUE, MagDrop(MagMul(a.mag, b.mag), FracLimbs))

DDiv(a, b) ==
  IF a.neg = b.neg THEN Big(FALSE, MagDiv(MagShift(a.mag, FracLimbs), b.mag))
  ELSE Big(TRUE, MagDiv(MagShift(a.mag, FracLimbs), b.mag))

DMulInt(a, n) == BigMul(a, BigOf(n))
DDivInt(a, n) == BigDiv(a, BigOf(n))
DLt(a, b) == BigCmp(a, b) < 0

(***************************************************************************)
(* A series is summed term by term until a term rounds to zero, MaxTerms   *)
(* terms at most.                                                          *)
(***************************************************************************)
MaxTerms == 64

\* term n of a series, the sum of the terms before it and the terms left
SeriesState(term, n, sum, left) ==
  [term |-> term, n |-> n, sum |-> sum, left |-> left,
   done |-> left = 0 \/ BigIsZero(term)]

\* Math.exp: exp(x) = exp(x / 64)^64, the inner one by its power series
ExpStep(y, st) ==
  SeriesState(DDivInt(DMul(st.term, y), st.n + 1), st.n + 1,
              BigAdd(st.sum, st.term), st.left - 1)

RECURSIVE ExpSeries(_, _)
ExpSeries(y, st) == IF st.done THEN st ELSE ExpSeries(y, ExpStep(y, st))

RECURSIVE SquareTimes(_, _)
SquareTimes(v, n) ==
  IF n = 0 \/ BigIsZero(v) THEN v ELSE SquareTimes(DMul(v, v), n - 1)

Exp(x) ==
  IF BigIsZero(x) THEN DOne
  ELSE SquareTimes(ExpSeries(DDivInt(x, 64),
                             SeriesState(DOne, 0, BigZero, MaxTerms)).sum, 6)

\* Math.log, for x > 0: x = u * 2^m with 3/4 <= u < 3/2, and
\* ln u = 2 atanh((u - 1) / (u + 1)) by its power series
Ln2 == DLit(FALSE, 0, <<6931, 4718, 0559, 9453, 0941>>)

RECURSIVE LnScale(_, _)
LnScale(x, m) ==
  IF ~DLt(x, DInt(2^16))
  THEN Let(DDivInt(x, 2^16), LAMBDA h : LnScale(h, m + 16))
  ELSE IF DLt(x, DDivInt(DOne, 2^16))
  THEN Let(DMulInt(x, 2^16), LAMBDA d : LnScale(d, m - 16))
  ELSE IF ~DLt(x, DLit(FALSE, 1, <<5000>>))
  THEN Let(DDivInt(x, 2), LAMBDA h : LnScale(h, m + 1))
  ELSE IF DLt(x, DLit(FALSE, 0, <<7500>>))
  THEN Let(DMulInt(x, 2), LAMBDA d : LnScale(d, m - 1))
  ELSE <<x, m>>

\* st.term is w^n, st.sum the sum of the terms before w^n / n
AtanhStep(w2, st) ==
  SeriesState(DMul(st.term, w2), st.n + 2,
              BigAdd(st.sum, DDivInt(st.term, st.n)), st.left - 1)

RECURSIVE AtanhSeries(_, _)
AtanhSeries(w2, st) == IF st.done THEN st ELSE AtanhSeries(w2, AtanhStep(w2, st))

\* 2 atanh(w)
TwiceAtanh(w) ==
  DMulInt(AtanhSeries(DMul(w, w), SeriesState(w, 1, BigZero, MaxTerms)).sum,
          2)

\* m ln 2 + ln u, for r = <<u, m>>
LnOfScaled(r) ==
  BigAdd(TwiceAtanh(DDiv(BigSub(r[1], DOne), BigAdd(r[1], DOne))),
         DMulInt(Ln2, r[2]))

Ln(x) == IF x = DOne THEN BigZero ELSE LnOfScaled(LnScale(x, 0))

\* Math.sqrt(2)
Sqrt2 == DLit(FALSE, 1, <<4142, 1356, 2373, 0950, 4880>>)

(***************************************************************************)
(* lib/statistics.ts                                                       *)
(***************************************************************************)
half == DLit(FALSE, 0, <<5000>>)

\* line 237, the polynomial in t
normalCDFPolynomial(t) ==
  LET a1 == DLit(FALSE, 0, <<2548, 2959, 2000>>)
      a2 == DLit(TRUE, 0, <<2844, 9673, 6000>>)
      a3 == DLit(FALSE, 1, <<4214, 1374, 1000>>)
      a4 == DLit(TRUE, 1, <<4531, 5202, 7000>>)
      a5 == DLit(FALSE, 1, <<0614, 0542, 9000>>)
  IN  DMul(BigAdd(DMul(BigAdd(DMul(BigAdd(DMul(BigAdd(DMul(a5, t), a4), t),
                                          a3), t), a2), t), a1), t)

\* lines 237-239, from z after line 234 and t of line 236
normalCDFOf(z, zs, t) ==
  Let(BigSub(DOne, DMul(normalCDFPolynomial(t), Exp(BigNeg(DMul(zs, zs))))),
      LAMBDA y :
        DMul(half, BigAdd(DOne, IF DLt(z, BigZero) THEN BigNeg(y) ELSE y)))

\* lines 225-240; zs is z after line 234
normalCDF(z) ==
  Let(DDiv(BigAbs(z), Sqrt2), LAMBDA zs :
    Let(DDiv(DOne, BigAdd(DOne, DMul(DLit(FALSE, 0, <<3275, 9110>>), zs))),
        LAMBDA t : normalCDFOf(z, zs, t)))

\* lines 309-312
cof ==
  <<DLit(FALSE, 76, <<1800, 9172, 9471, 4600>>),
    DLit(TRUE, 86, <<5053, 2032, 9416, 7700>>),
    DLit(FALSE, 24, <<0140, 9824, 0830, 9100>>),
    DLit(TRUE, 1, <<2317, 3957, 2450, 1550>>),
    DLit(FALSE, 0, <<0012, 0865, 0973, 8661, 7900>>),
    DLit(TRUE, 0, <<0000, 0539, 5239, 3849, 5300>>)>>

\* lines 317-321: ser after the loop
gammaLnSeries(x) ==
  BigAdd(BigAdd(BigAdd(BigAdd(BigAdd(BigAdd(
    DLit(FALSE, 1, <<0000, 0000, 0190, 0150>>),
    DDiv(cof[1], BigAdd(x, DInt(1)))),
    DDiv(cof[2], BigAdd(x, DInt(2)))),
    DDiv(cof[3], BigAdd(x, DInt(3)))),
    DDiv(cof[4], BigAdd(x, DInt(4)))),
    DDiv(cof[5], BigAdd(x, DInt(5)))),
    DDiv(cof[6], BigAdd(x, DInt(6))))

\* lines 315-316: tmp -= (x + 0.5) * Math.log(tmp)
gammaLnTmp(x, tmp0) == BigSub(tmp0, DMul(BigAdd(x, half), Ln(tmp0)))

\* lines 308-324
gammaLn(x) ==
  Let(gammaLnSeries(x), LAMBDA ser :
    Let(Ln(DDiv(DMul(DLit(FALSE, 2, <<5066, 2827, 4631, 0005>>), ser), x)),
        LAMBDA logTerm :
          BigSub(logTerm,
                 gammaLnTmp(x, BigAdd(x, DLit(FALSE, 5, <<5000>>))))))

maxIterations == 100
epsilon == DLit(FALSE, 0, <<0000, 0000, 0100>>)

\* lines 280, 288, 290, 295, 297: if (Math.abs(v) < epsilon) v = epsilon
atLeastEpsilon(v) == IF MagCmp(v.mag, epsilon.mag) < 0 THEN epsilon ELSE v

\* lines 287-291 and 294-298: d and c on, by the coefficient aa
betaCFUpdate(aa, st) ==
  Let(aa, LAMBDA v :
    [d |-> DDiv(DOne, atLeastEpsilon(BigAdd(DOne, DMul(v, st.d)))),
     c |-> atLeastEpsilon(BigAdd(DOne, DDiv(v, st.c)))])

\* line 301: if (Math.abs(del - 1) < epsilon) break
converged(del) == DLt(BigAbs(BigSub(del, DOne)), epsilon)

\* lines 284, 292, 299-301: the state after pass st.m, s1 and s2 its two
\* updates; done when the loop ends with it
betaCFPass(st, s1, s2, del) ==
  [c |-> s2.c, d |-> s2.d, m |-> st.m + 1,
   h |-> DMul(DMul(st.h, DMul(s1.d, s1.c)), del),
   done |-> converged(del) \/ st.m = maxIterations]

\* lines 285-301: pass st.m of the loop body, from the c, d and h in st
betaCFStep(a, b, x, st) ==
  Let(betaCFUpdate(DDiv(DMul(DMul(DInt(st.m), BigSub(b, DInt(st.m))), x),
                        DMul(BigAdd(BigSub(a, DOne), DInt(2 * st.m)),
                             BigAdd(a, DInt(2 * st.m)))), st), LAMBDA s1 :
    Let(betaCFUpdate(DDiv(DMul(DMul(BigNeg(BigAdd(a, DInt(st.m))),
                                    BigAdd(BigAdd(a, b), DInt(st.m))), x),
                          DMul(BigAdd(a, DInt(2 * st.m)),
                               BigAdd(BigAdd(a, DOne), DInt(2 * st.m)))), s1),
        LAMBDA s2 : betaCFPass(st, s1, s2, DMul(s2.d, s2.c))))

\* lines 284-302: the loop, from the state st
RECURSIVE betaCFLoop(_, _, _, _)
betaCFLoop(a, b, x, st) ==
  IF st.done THEN st ELSE betaCFLoop(a, b, x, betaCFStep(a, b, x, st))

\* lines 270-305
betaCF(a, b, x) ==
  Let(DDiv(DOne,
           atLeastEpsilon(BigSub(DOne, DDiv(DMul(BigAdd(a, b), x),
                                            BigAdd(a, DOne))))), LAMBDA d :
    betaCFLoop(a, b, x,
               [c |-> DOne, d |-> d, h |-> d, m |-> 1, done |-> FALSE]).h)

\* line 260
incompleteBetaFront(a, b, x) ==
  Let(gammaLn(BigAdd(a, b)), LAMBDA gab :
    Let(BigSub(gab, gammaLn(a)), LAMBDA ga :
      Let(BigSub(ga, gammaLn(b)), LAMBDA g :
        Let(BigAdd(g, DMul(a, Ln(x))), LAMBDA gx :
          Exp(BigAdd(gx, DMul(b, Ln(BigSub(DOne, x)))))))))

\* lines 262-266, from bt of line 260
incompleteBetaOf(a, b, x, bt) ==
  IF DLt(x, DDiv(BigAdd(a, DOne), BigAdd(BigAdd(a, b), DInt(2))))
  THEN Let(betaCF(a, b, x), LAMBDA cf : DDiv(DMul(bt, cf), a))
  ELSE Let(betaCF(b, a, BigSub(DOne, x)), LAMBDA cf :
         BigSub(DOne, DDiv(DMul(bt, cf), b)))

\* lines 255-267
incompleteBeta(a, b, x) ==
  IF BigIsZero(x) THEN BigZero
  ELSE IF x = DOne THEN DOne
  ELSE Let(incompleteBetaFront(a, b, x), LAMBDA bt :
         incompleteBetaOf(a, b, x, bt))

\* lines 243-252
tCDF(t, df) ==
  IF DLt(DInt(100), df) THEN normalCDF(t)
  ELSE Let(incompleteBeta(DDivInt(df, 2), half,
                          DDiv(df, BigAdd(df, DMul(t, t)))), LAMBDA ib :
         BigSub(DOne, DMul(half, ib)))

(***************************************************************************)
(* Calls of the library functions.  args holds the arguments of a call and *)
(* returned the values returned so far: by the call itself, and then by    *)
(* the call with the first argument negated.  The page stays as built.     *)
(***************************************************************************)
PageAsBuilt ==
  /\ optimizationType = DefaultForm[1]
  /\ objectiveX = DefaultForm[2]
  /\ objectiveY = DefaultForm[3]
  /\ constraints = DefaultForm[4]
  /\ results = Null
  /\ error = NoError
  /\ edits = 0
  /\ PagesAsBuilt

ZSteps == 17
TSteps == 4

\* z = k / 4
ZValues == {DDivInt(DInt(k), 4) : k \in (-ZSteps)..ZSteps}

InitNormal ==
  /\ PageAsBuilt
  /\ args \in {[z |-> v] : v \in ZValues}
  /\ returned = <<>>

callNormalCDF ==
  /\ Len(returned) = 0
  /\ returned' = <<normalCDF(args.z)>>
  /\ UNCHANGED <<args, lpVars, pages>>

callNormalCDFNegated ==
  /\ Len(returned) = 1
  /\ returned' = Append(returned, normalCDF(BigNeg(args.z)))
  /\ UNCHANGED <<args, lpVars, pages>>

NextNormal == callNormalCDF \/ callNormalCDFNegated

vars == <<lpVars, callVars, pages>>

SpecNormal == InitNormal /\ [][NextNormal]_vars

\* t = k / 2
TValues == {DDivInt(DInt(k), 2) : k \in (-TSteps)..TSteps}
DfValues == {DInt(1), DInt(2), DInt(3), DInt(5), DInt(10), DInt(30), DInt(100),
             DInt(101)}

InitT ==
  /\ PageAsBuilt
  /\ args \in {[t |-> v, df |-> d] : v \in TValues, d \in DfValues}
  /\ returned = <<>>

callTCDF ==
  /\ Len(returned) = 0
  /\ returned' = <<tCDF(args.t, args.df)>>
  /\ UNCHANGED <<args, lpVars, pages>>

callTCDFNegated ==
  /\ Len(returned) = 1
  /\ returned' = Append(returned, tCDF(BigNeg(args.t), args.df))
  /\ UNCHANGED <<args, lpVars, pages>>

NextT == callTCDF \/ callTCDFNegated

SpecT == InitT /\ [][NextT]_vars

\* the rounding of the model's arithmetic is far below this
Slack == DLit(FALSE, 0, <<0000, 0000, 0000, 0100>>)
Near(a, b) == ~DLt(Slack, BigAbs(BigSub(a, b)))

\* C6: normalCDF(0) returns exactly 0.5.
C6_NormalCDFAtZero ==
  (BigIsZero(args.z) /\ Len(returned) >= 1) => returned[1] = half

\* C7: for every z, z = 0 included, normalCDF(-z) equals 1 - normalCDF(z)
\* (here: up to the rounding of the arithmetic).
C7_NormalCDFMirror ==
  Len(returned) = 2 => Near(returned[2], BigSub(DOne, returned[1]))

\* C8: for df <= 100, tCDF(-t, df) equals 1 - tCDF(t, df) (up to the rounding
\* of the arithmetic), and tCDF of a negative t is at most 0.5.
C8_TCDFMirror ==
  (Len(returned) = 2 /\ ~DLt(DInt(100), args.df)) =>
     /\ Near(returned[2], BigSub(DOne, returned[1]))
     /\ DLt(args.t, BigZero) => ~DLt(half, returned[1])

(***************************************************************************)
(* getTCritical.  Its numbers have three decimals and are held in          *)
(* thousandths: 1.96 is 1960, and df = 22.5 is 22500.                      *)
(***************************************************************************)
\* lines 26-32
Z_SCORES == (90 :> 1645) @@ (95 :> 1960) @@ (99 :> 2576) @@ (85 :> 1440)
            @@ (80 :> 1280)

\* a row of the table of lines 43-72
Row(c90, c95, c99) == (90 :> c90) @@ (95 :> c95) @@ (99 :> c99)

\* lines 43-72
tTable ==
  (1 :> Row(6314, 12706, 63657)) @@ (2 :> Row(2920, 4303, 9925))
  @@ (3 :> Row(2353, 3182, 5841)) @@ (4 :> Row(2132, 2776, 4604))
  @@ (5 :> Row(2015, 2571, 4032)) @@ (6 :> Row(1943, 2447, 3707))
  @@ (7 :> Row(1895, 2365, 3499)) @@ (8 :> Row(1860, 2306, 3355))
  @@ (9 :> Row(1833, 2262, 3250)) @@ (10 :> Row(1812, 2228, 3169))
  @@ (11 :> Row(1796, 2201, 3106)) @@ (12 :> Row(1782, 2179, 3055))
  @@ (13 :> Row(1771, 2160, 3012)) @@ (14 :> Row(1761, 2145, 2977))
  @@ (15 :> Row(1753, 2131, 2947)) @@ (16 :> Row(1746, 2120, 2921))
  @@ (17 :> Row(1740, 2110, 2898)) @@ (18 :> Row(1734, 2101, 2878))
  @@ (19 :> Row(1729, 2093, 2861)) @@ (20 :> Row(1725, 2086, 2845))
  @@ (25 :> Row(1708, 2060, 2787)) @@ (30 :> Row(1697, 2042, 2750))
  @@ (40 :> Row(1684, 2021, 2704)) @@ (50 :> Row(1676, 2009, 2678))
  @@ (60 :> Row(1671, 2000, 2660)) @@ (80 :> Row(1664, 1990, 2639))
  @@ (100 :> Row(1660, 1984, 2626)) @@ (120 :> Row(1658, 1980, 2617))

\* map[key] of JavaScript: <<>> is undefined
Lookup(map, key) == IF key \in DOMAIN map THEN <<map[key]>> ELSE <<>>

\* x || y of JavaScript, for x a looked-up number and y a number
OrElse(x, y) == IF x = <<>> \/ x[1] = 0 THEN y ELSE x[1]

\* the numbers of the set s in ascending order: lines 75-77
RECURSIVE sortAscending(_)
sortAscending(s) ==
  IF s = {} THEN <<>>
  ELSE <<CHOOSE d \in s : \A e \in s : d <= e>>
       \o sortAscending(s \ {CHOOSE d \in s : \A e \in s : d <= e})

dfs == sortAscending(DOMAIN tTable)

\* a loop that takes the first breakpoint above df when there is one
RECURSIVE closestDfRoundingUp(_, _, _)
closestDfRoundingUp(df, i, closestDf) ==
  IF i > Len(dfs) THEN closestDf
  ELSE IF dfs[i] * 1000 < df THEN closestDfRoundingUp(df, i + 1, dfs[i])
  ELSE dfs[i]

\* lines 79-82: the loop from dfs[i] on
RECURSIVE closestDfFrom(_, _, _)
closestDfFrom(df, i, closestDf) ==
  IF i > Len(dfs) THEN closestDf
  ELSE IF dfs[i] * 1000 <= df THEN closestDfFrom(df, i + 1, dfs[i])
  ELSE closestDf

\* line 84
tableOrZ(df, confidenceLevel) ==
  OrElse(Lookup(tTable[closestDfFrom(df, 1, dfs[1])], confidenceLevel),
         OrElse(Lookup(Z_SCORES, confidenceLevel), 1960))

\* getTCritical without lines 38-40
getTCriticalByTable(df, confidenceLevel) == tableOrZ(df, confidenceLevel)

\* lines 36-85
getTCritical(df, confidenceLevel) ==
  IF df >= 120000 THEN OrElse(Lookup(Z_SCORES, confidenceLevel), 1960)
  ELSE tableOrZ(df, confidenceLevel)

MaxDf == 125

\* df = k / 2
DfHalves == {500 * k : k \in 0..(2 * MaxDf)}
ConfidenceLevels == {75, 80, 85, 90, 95, 99}

InitTCritical ==
  /\ PageAsBuilt
  /\ args \in {[df |-> d, confidenceLevel |-> l] :
                 d \in DfHalves, l \in ConfidenceLevels}
  /\ returned = <<>>

callGetTCritical ==
  /\ Len(returned) = 0
  /\ returned' = <<getTCritical(args.df, args.confidenceLevel)>>
  /\ UNCHANGED <<args, lpVars, pages>>

NextTCritical == callGetTCritical

SpecTCritical == InitTCritical /\ [][NextTCritical]_vars

Breakpoints == (1..20) \cup {25, 30, 40, 50, 60, 80, 100, 120}

\* the largest breakpoint that is <= df
BreakpointBelow(df) ==
  CHOOSE d \in Breakpoints :
    /\ d * 1000 <= df
    /\ \A e \in Breakpoints : e * 1000 <= df => e <= d

\* C9: for 1 <= df < 120 and a confidence level of 90, 95 or 99, getTCritical
\* returns the table entry of the largest breakpoint that is <= df.
C9_RoundsDfDown ==
  (/\ Len(returned) = 1
   /\ args.df >= 1000 /\ args.df < 120000
   /\ args.confidenceLevel \in {90, 95, 99})
  => returned[1] = tTable[BreakpointBelow(args.df)][args.confidenceLevel]

\* df = 22.5 at 95 %: the entry of breakpoint 20, not that of 25
C9_Witness ==
  /\ args = [df |-> 22500, confidenceLevel |-> 95]
  /\ returned = <<2086>>

\* C10: getTCritical returns Z_SCORES[level] whenever df >= 120 and the level
\* is in Z_SCORES, and whenever the level is 80 or 85, for every df; no entry
\* of the table's row for df = 120 is ever returned.
C10_FallsBackToZ ==
  Len(returned) = 1 =>
    /\ (args.df >= 120000 /\ args.confidenceLevel \in DOMAIN Z_SCORES)
         => returned[1] = Z_SCORES[args.confidenceLevel]
    /\ args.confidenceLevel \in {80, 85}
         => returned[1] = Z_SCORES[args.confidenceLevel]
    /\ \A l \in DOMAIN tTable[120] : returned[1] # tTable[120][l]

\* df = 120 at 95 %: 1.96, where the row for 120 has 1.98
C10_Witness ==
  /\ args = [df |-> 120000, confidenceLevel |-> 95]
  /\ returned = <<1960>>

(***************************************************************************)
(* IEEE 754 doubles, as the sample-size, ANOVA, regression and seasonal    *)
(* functions compute with them.  A finite double is neg, m, e with value   *)
(* (-1)^neg * m * 2^e, where m is a magnitude with 2^52 <= m < 2^53, or    *)
(* m = <<>> and e = 0 for a zero (which keeps its sign); the other doubles *)
(* are the two infinities and NaN.  Every operation rounds the exact       *)
(* result to the nearest double, ties to even.  The exponent range is not  *)
(* modelled: no value of the model overflows or is subnormal.              *)
(***************************************************************************)
RECURSIVE Pow8192(_)
Pow8192(j) == IF j = 0 THEN <<1>> ELSE MagMulSmall(Pow8192(j - 1), 8192)

\* 2^k as a magnitude
Pow2(k) == MagMulSmall(Pow8192(k \div 13), 2^(k % 13))

\* 2^52 and 2^53
Two52 == <<496, 2737, 5996, 4503>>
Two53 == <<992, 5474, 1992, 9007>>

\* the number of bits of the native n in 0..Base-1
LimbBits(n) == Cardinality({j \in 0..13 : 2^j <= n})

\* the number of bits of the magnitude m: the count of j with 2^j <= m,
\* from a lower estimate by the number of limbs and the top limb
BitLenFrom(m, lo) ==
  lo + Cardinality({j \in lo..(lo + 3) : MagCmp(m, Pow2(j)) >= 0})

BitLen(m) ==
  IF m = <<>> THEN 0
  ELSE IF Len(m) = 1 THEN LimbBits(m[1])
  ELSE BitLenFrom(m, ((Len(m) - 1) * 13287) \div 1000 + LimbBits(m[Len(m)]) - 1)

F64(cls, isNeg, m, e) == [cls |-> cls, neg |-> isNeg, m |-> m, e |-> e]
F64NaN == F64("nan", FALSE, <<>>, 0)
F64Inf(isNeg) == F64("inf", isNeg, <<>>, 0)
F64Zero(isNeg) == F64("num", isNeg, <<>>, 0)

\* sum * 2^e for a magnitude sum in 2^52..2^53
F64Finish(isNeg, sum, e) ==
  IF sum = Two53 THEN F64("num", isNeg, Two52, e + 1)
  ELSE F64("num", isNeg, sum, e)

\* hi * 2^e rounded: cmp compares the bits dropped with one half, and
\* sticky says that the exact value lies above those bits
F64Nearest(isNeg, hi, cmp, e, sticky) ==
  IF cmp > 0 \/ (cmp = 0 /\ (sticky \/ hi[1] % 2 = 1))
  THEN F64Finish(isNeg, MagAdd(hi, <<1>>), e)
  ELSE F64("num", isNeg, hi, e)

\* n = hi * p + lo with lo < p
F64Drop(isNeg, p, hi, lo, e, sticky) ==
  F64Nearest(isNeg, hi, MagCmp(MagAdd(lo, lo), p), e, sticky)

\* n has b > 0 bits and p = 2^|b - 53|
F64Scale(isNeg, n, b, p, hi, e, sticky) ==
  IF b <= 53 THEN F64("num", isNeg, MagMul(n, p), e - (53 - b))
  ELSE F64Drop(isNeg, p, hi, MagSub(n, MagMul(hi, p)), e + (b - 53), sticky)

F64Shift(isNeg, n, b, p, e, sticky) ==
  F64Scale(isNeg, n, b, p, IF b <= 53 THEN n ELSE MagDiv(n, p), e, sticky)

F64OfBits(isNeg, n, b, e, sticky) ==
  IF b = 0 THEN F64Zero(isNeg)
  ELSE F64Shift(isNeg, n, b, Pow2(IF b <= 53 THEN 53 - b ELSE b - 53), e,
                sticky)

\* the double nearest to (-1)^isNeg * n * 2^e for a magnitude n, the exact
\* value lying above n * 2^e if sticky (then n has at least 55 bits)
F64Round(isNeg, n, e, sticky) == F64OfBits(isNeg, n, BitLen(n), e, sticky)

F64OfBig(r, e) == F64Round(r.neg, r.mag, e, FALSE)

\* the double nearest to (-1)^isNeg * (num / d) * 2^e, for a quotient of at
\* least 55 bits
F64Quotient(isNeg, num, d, q, e) == F64Round(isNeg, q, e, MagMul(q, d) # num)
F64Over(isNeg, num, d, e) == F64Quotient(isNeg, num, d, MagDiv(num, d), e)
F64Ratio(isNeg, n, d, s, e) == F64Over(isNeg, MagMul(n, Pow2(s)), d, e - s)

F64IsNaN(a) == a.cls = "nan"
F64IsFinite(a) == a.cls = "num"
F64IsZero(a) == a.cls = "num" /\ a.m = <<>>
F64Neg(a) == IF a.cls = "nan" THEN a ELSE F64(a.cls, ~a.neg, a.m, a.e)
F64Abs(a) == IF a.cls = "nan" THEN a ELSE F64(a.cls, FALSE, a.m, a.e)

\* the double of the native integer n
F64OfInt(n) == F64OfBig(BigOf(n), 0)

\* the double nearest to the decimal literal digits * 10^(-decimals)
F64OfDecimal(isNeg, n, d) ==
  IF n = <<>> THEN F64Zero(isNeg)
  ELSE F64Ratio(isNeg, n, d, 55 - (BitLen(n) - BitLen(d)), 0)

F64OfDec(digits, decimals) ==
  F64OfDecimal(digits < 0, BigOf(digits).mag, BigPow10(decimals).mag)

\* x + y for finite x and y that are not zero, x.e >= y.e
F64AddOrdered(x, y) ==
  F64OfBig(BigAdd(Big(x.neg, MagMul(x.m, Pow2(x.e - y.e))), Big(y.neg, y.m)),
           y.e)

\* a + b
F64Add(a, b) ==
  IF a.cls = "nan" \/ b.cls = "nan" THEN F64NaN
  ELSE IF a.cls = "inf"
  THEN (IF b.cls = "inf" /\ a.neg # b.neg THEN F64NaN ELSE a)
  ELSE IF b.cls = "inf" THEN b
  ELSE IF a.m = <<>>
  THEN (IF b.m = <<>> THEN F64Zero(a.neg /\ b.neg) ELSE b)
  ELSE IF b.m = <<>> THEN a
  ELSE F64AddOrdered(IF a.e >= b.e THEN a ELSE b, IF a.e >= b.e THEN b ELSE a)

\* a - b
F64Sub(a, b) == F64Add(a, F64Neg(b))

\* a * b
F64Mul(a, b) ==
  IF a.cls = "nan" \/ b.cls = "nan" THEN F64NaN
  ELSE IF a.cls = "inf" \/ b.cls = "inf"
  THEN (IF F64IsZero(a) \/ F64IsZero(b) THEN F64NaN ELSE F64Inf(a.neg # b.neg))
  ELSE IF a.m = <<>> \/ b.m = <<>> THEN F64Zero(a.neg # b.neg)
  ELSE F64Round(a.neg # b.neg, MagMul(a.m, b.m), a.e + b.e, FALSE)

\* a / b
F64Div(a, b) ==
  IF a.cls = "nan" \/ b.cls = "nan" THEN F64NaN
  ELSE IF a.cls = "inf"
  THEN (IF b.cls = "inf" THEN F64NaN ELSE F64Inf(a.neg # b.neg))
  ELSE IF b.cls = "inf" THEN F64Zero(a.neg # b.neg)
  ELSE IF b.m = <<>>
  THEN (IF a.m = <<>> THEN F64NaN ELSE F64Inf(a.neg # b.neg))
  ELSE IF a.m = <<>> THEN F64Zero(a.neg # b.neg)
  ELSE F64Ratio(a.neg # b.neg, a.m, b.m, 55, a.e - b.e)

\* -1, 0 or 1 as a is negative, a zero or positive
F64Sign(a) == IF F64IsZero(a) THEN 0 ELSE IF a.neg THEN -1 ELSE 1

\* -1, 0 or 1 as |a| < |b|, |a| = |b| or |a| > |b|, neither a zero or NaN
F64CmpAbs(a, b) ==
  IF a.cls = "inf" THEN (IF b.cls = "inf" THEN 0 ELSE 1)
  ELSE IF b.cls = "inf" THEN -1
  ELSE IF a.e # b.e THEN (IF a.e < b.e THEN -1 ELSE 1)
  ELSE MagCmp(a.m, b.m)

\* -1, 0 or 1 as a < b, a = b or a > b, neither NaN
F64Cmp(a, b) ==
  IF F64Sign(a) # F64Sign(b) THEN (IF F64Sign(a) < F64Sign(b) THEN -1 ELSE 1)
  ELSE IF F64Sign(a) = 0 THEN 0
  ELSE F64Sign(a) * F64CmpAbs(a, b)

\* a < b, a > b, a <= b, a >= b, a === b: all false if a or b is NaN
F64Lt(a, b) == a.cls # "nan" /\ b.cls # "nan" /\ F64Cmp(a, b) < 0
F64Gt(a, b) == a.cls # "nan" /\ b.cls # "nan" /\ F64Cmp(a, b) > 0
F64Le(a, b) == a.cls # "nan" /\ b.cls # "nan" /\ F64Cmp(a, b) <= 0
F64Ge(a, b) == a.cls # "nan" /\ b.cls # "nan" /\ F64Cmp(a, b) >= 0
F64Eq(a, b) == a.cls # "nan" /\ b.cls # "nan" /\ F64Cmp(a, b) = 0

\* Math.ceil of a finite x with x.e < 0: p = 2^(-x.e) and ip is the integer
\* part of |x|
F64CeilOf(x, p, ip) ==
  F64Round(x.neg,
           IF x.neg \/ MagMul(ip, p) = x.m THEN ip ELSE MagAdd(ip, <<1>>),
           0, FALSE)

F64CeilBy(x, p) == F64CeilOf(x, p, MagDiv(x.m, p))

\* Math.ceil
F64Ceil(x) ==
  IF x.cls # "num" \/ x.m = <<>> \/ x.e >= 0 THEN x
  ELSE F64CeilBy(x, Pow2(-x.e))

\* the exact value of a finite double, as a rational
F64Exact(x) ==
  IF x.e >= 0 THEN Q(Big(x.neg, MagMul(x.m, Pow2(x.e))), BigOne)
  ELSE Q(Big(x.neg, x.m), Big(FALSE, Pow2(-x.e)))

\* floor(sqrt(n)) by Newton's iteration from a g >= sqrt(n)
RECURSIVE MagSqrtFrom(_, _)
MagSqrtFrom(n, g) ==
  Let(MagDivSmall(MagAdd(g, MagDiv(n, g)), 2), LAMBDA h :
    IF MagCmp(h, g) >= 0 THEN g ELSE MagSqrtFrom(n, h))

\* the double nearest to sqrt(n) * 2^e, for the root r of a square of 109 or
\* 110 bits
F64Root(n, r, e) == F64Round(FALSE, r, e, MagMul(r, r) # n)

\* sqrt(m * 2^e): k is 56 or 57, so that e - k is even
F64SqrtOf(m, e, k) ==
  F64Root(MagMul(m, Pow2(k)),
          MagSqrtFrom(MagMul(m, Pow2(k)), Pow2(55)), (e - k) \div 2)

\* Math.sqrt
F64Sqrt(a) ==
  IF a.cls = "nan" THEN F64NaN
  ELSE IF a.m = <<>> /\ a.cls = "num" THEN a
  ELSE IF a.neg THEN F64NaN
  ELSE IF a.cls = "inf" THEN a
  ELSE F64SqrtOf(a.m, a.e, 56 + (a.e % 2))

(***************************************************************************)
(* Sample sizes (src/unnamed/part_002, lines 87-100).                      *)
(***************************************************************************)
\* 1
F64One == F64("num", FALSE, Two52, -52)

\* lines 88-90
sampleSizeProportion(z, p, marginOfError) ==
  F64Ceil(F64Div(F64Mul(F64Mul(F64Mul(z, z), p), F64Sub(F64One, p)),
                 F64Mul(marginOfError, marginOfError)))

\* lines 93-95
sampleSizeMean(z, sigma, marginOfError) ==
  F64Ceil(F64Div(F64Mul(F64Mul(F64Mul(z, z), sigma), sigma),
                 F64Mul(marginOfError, marginOfError)))

\* finitePopulationCorrection with n0 multiplied by what line 99 divides by
finitePopulationRaised(n0, N) ==
  F64Ceil(F64Mul(n0, F64Add(F64One, F64Div(F64Sub(n0, F64One), N))))

\* lines 98-100
finitePopulationCorrection(n0, N) ==
  F64Ceil(F64Div(n0, F64Add(F64One, F64Div(F64Sub(n0, F64One), N))))

(***************************************************************************)
(* Calls of sampleSizeProportion and sampleSizeMean.  args holds the       *)
(* function called and the arguments of two calls that differ in one       *)
(* argument; returned holds what the calls made so far returned.           *)
(***************************************************************************)
\* z is a value of Z_SCORES
SampleZ == {F64OfDec(Z_SCORES[l], 3) : l \in {85, 90, 95}}
SampleP == {F64OfDec(d, 1) : d \in {0, 4, 5, 6, 10}}
SampleSigma == {F64OfDec(d, 1) : d \in {10, 35, 60}}
SampleE == {F64OfDec(d, 3) : d \in {1, 50, 60}}

SampleCall(z, v, e) == [z |-> z, v |-> v, marginOfError |-> e]

SampleCalls(fn) ==
  IF fn = "sampleSizeProportion"
  THEN {SampleCall(z, p, e) : z \in SampleZ, p \in SampleP, e \in SampleE}
  ELSE {SampleCall(z, s, e) : z \in SampleZ, s \in SampleSigma, e \in SampleE}

DifferInOne(a, b) ==
  Cardinality({f \in DOMAIN a : a[f] # b[f]}) = 1

InitSampleSize ==
  /\ PageAsBuilt
  /\ \E fn \in {"sampleSizeProportion", "sampleSizeMean"} :
       \E a \in SampleCalls(fn), b \in SampleCalls(fn) :
         /\ DifferInOne(a, b)
         /\ args = [fn |-> fn, calls |-> <<a, b>>]
  /\ returned = <<>>

sampleSizeOf(fn, c) ==
  IF fn = "sampleSizeProportion"
  THEN sampleSizeProportion(c.z, c.v, c.marginOfError)
  ELSE sampleSizeMean(c.z, c.v, c.marginOfError)

callSampleSize ==
  /\ Len(returned) < Len(args.calls)
  /\ returned' =
       Append(returned, sampleSizeOf(args.fn, args.calls[Len(returned) + 1]))
  /\ UNCHANGED <<args, lpVars, pages>>

NextSampleSize == callSampleSize

SpecSampleSize == InitSampleSize /\ [][NextSampleSize]_vars

\* the exact value of z^2 * p * (1 - p) / E^2 and of z^2 * sigma^2 / E^2
ExactSquare(x) == QMul(F64Exact(x), F64Exact(x))
ExactSpread(fn, c) ==
  IF fn = "sampleSizeProportion"
  THEN QMul(F64Exact(c.v), QSub(QInt(1), F64Exact(c.v)))
  ELSE ExactSquare(c.v)
ExactSampleSize(fn, c) ==
  QDiv(QMul(ExactSquare(c.z), ExactSpread(fn, c)), ExactSquare(c.marginOfError))

\* the finite double r is an integer
IsWhole(r) == F64Ceil(r) = r

\* r is the least integer that is >= the rational x
IsCeilingOf(r, x) ==
  /\ F64IsFinite(r)
  /\ IsWhole(r)
  /\ QLt(QSub(F64Exact(r), QInt(1)), x)
  /\ QLe(x, F64Exact(r))

TextbookCall == SampleCall(F64OfDec(196, 2), F64OfDec(5, 1), F64OfDec(5, 2))

\* C11: sampleSizeProportion(z, p, E) is the ceiling of z^2 * p * (1 - p) / E^2
\* and sampleSizeMean(z, sigma, E) is the ceiling of z^2 * sigma^2 / E^2, for
\* the arguments' own values; sampleSizeProportion(1.96, 0.5, 0.05) is 385.
C11_CeilingOfFormula ==
  \A i \in 1..Len(returned) :
    /\ IsCeilingOf(returned[i], ExactSampleSize(args.fn, args.calls[i]))
    /\ (args.fn = "sampleSizeProportion" /\ args.calls[i] = TextbookCall)
         => returned[i] = F64OfInt(385)

\* C12: with the other arguments fixed, the sample size is non-decreasing
\* in z and in p * (1 - p) (proportion) or sigma^2 (mean), and
\* non-increasing in E.
C12_Monotone ==
  Len(returned) = 2 =>
    LET a == args.calls[1]
        b == args.calls[2]
    IN /\ (a.z # b.z /\ F64Le(a.z, b.z)) => F64Le(returned[1], returned[2])
       /\ (a.v # b.v /\ QLe(ExactSpread(args.fn, a), ExactSpread(args.fn, b)))
            => F64Le(returned[1], returned[2])
       /\ (a.marginOfError # b.marginOfError
           /\ F64Le(a.marginOfError, b.marginOfError))
            => F64Ge(returned[1], returned[2])

(***************************************************************************)
(* The sample-size page (src/unnamed/part_001).  A number input holds the  *)
(* text of a decimal or, if it holds anything else, the empty text, which  *)
(* is BadTxt here.  The confidence level is one of the select's items.     *)
(***************************************************************************)
\* Number.parseFloat of an input's text, as a double
parseFloat64(t) == IF t.ok THEN F64OfDec(t.digits, t.decimals) ELSE F64NaN

F64Zero0 == F64Zero(FALSE)

Failed(message) == [results |-> Null, error |-> message]
Stored(r) == [results |-> <<r>>, error |-> NoError]

\* lines 88-98: v is the proportion or the standard deviation parsed
sampleResults(p, n0, nAdjusted, z, N, e, v) ==
  Stored([n0 |-> n0, nAdjusted |-> nAdjusted, z |-> z, populationSize |-> N,
          confidenceLevel |-> p.confidenceLevel, marginOfError |-> e,
          parameterType |-> p.parameterType,
          proportion |-> IF p.parameterType = "proportion" THEN <<v>> ELSE Null,
          sigma |-> IF p.parameterType = "mean" THEN <<v>> ELSE Null])

\* line 85
sampleAdjusted(n0, N) ==
  IF N # Null /\ ~F64IsNaN(N[1]) /\ F64Gt(N[1], F64Zero0)
  THEN <<finitePopulationCorrection(n0, N[1])>>
  ELSE Null

\* lines 77-98 without the test of lines 81-84
samplePopulationUnchecked(p, n0, z, N, e, v) ==
  sampleResults(p, n0, sampleAdjusted(n0, N), z, N, e, v)

\* lines 77-98: N is null or the population size parsed
samplePopulation(p, n0, z, N, e, v) ==
  IF N # Null /\ ~F64IsNaN(N[1]) /\ F64Gt(N[1], F64Zero0) /\ F64Gt(n0, N[1])
  THEN Failed("Required sample size exceeds population size")
  ELSE sampleResults(p, n0, sampleAdjusted(n0, N), z, N, e, v)

\* lines 67 and 74
sampleN0(p, z, e, v) ==
  IF p.parameterType = "proportion" THEN sampleSizeProportion(z, v, e)
  ELSE sampleSizeMean(z, v, e)

\* lines 54-98
sampleChecked(p, z, e, v) ==
  IF F64IsNaN(e) \/ F64Le(e, F64Zero0) \/ F64Ge(e, F64One)
  THEN Failed("Margin of error must be between 0 and 1")
  ELSE IF /\ p.parameterType = "proportion"
          /\ (F64IsNaN(v) \/ F64Lt(v, F64Zero0) \/ F64Gt(v, F64One))
  THEN Failed("Proportion must be between 0 and 1")
  ELSE IF p.parameterType # "proportion" /\ (F64IsNaN(v) \/ F64Le(v, F64Zero0))
  THEN Failed("Standard deviation must be a positive number")
  ELSE samplePopulation(p, sampleN0(p, z, e, v), z,
                        IF p.populationSize = BadTxt THEN Null
                        ELSE <<parseFloat64(p.populationSize)>>,
                        e, v)

\* lines 41-99: what handleCalculate leaves in results and error
sampleOutcome(p) ==
  IF p.confidenceLevel \notin DOMAIN Z_SCORES \/ Z_SCORES[p.confidenceLevel] = 0
  THEN Failed("Invalid confidence level")
  ELSE sampleChecked(p, F64OfDec(Z_SCORES[p.confidenceLevel], 3),
                     parseFloat64(p.marginOfError),
                     parseFloat64(IF p.parameterType = "proportion"
                                  THEN p.proportion ELSE p.sigma))

ParameterTypes == {"proportion", "mean"}
ConfidenceItems == {85, 95}
MarginTexts == {Txt(5, 2), Txt(1, 3), Txt(1, 0), BadTxt}
ProportionTexts == {Txt(5, 1), Txt(0, 0), Txt(1, 0), Txt(15, 1)}
SigmaTexts == {BadTxt, Txt(35, 1)}
PopulationTexts == {BadTxt, Txt(1, 0), Txt(100, 0), Txt(1000, 0)}

\* the form is filled in before the first calculation
NotCalculated == sampleSizePage.results = Null /\ sampleSizePage.error = NoError

SetField(field, v) ==
  /\ NotCalculated
  /\ sampleSizePage' = [sampleSizePage EXCEPT ![field] = v]
  /\ UNCHANGED <<lpVars, callVars, anovaPage, hypothesisPage, intervalPage, layout>>

setParameterType(v) == SetField("parameterType", v)
setConfidenceLevel(v) == SetField("confidenceLevel", v)
setMarginOfError(v) == SetField("marginOfError", v)
setProportion(v) == SetField("proportion", v)
setSigma(v) == SetField("sigma", v)
setPopulationSize(v) == SetField("populationSize", v)

\* setResults and setError
WithOutcome(p, o) == [p EXCEPT !.results = o.results, !.error = o.error]

handleCalculateSampleSize ==
  /\ sampleSizePage' = WithOutcome(sampleSizePage, sampleOutcome(sampleSizePage))
  /\ UNCHANGED <<lpVars, callVars, anovaPage, hypothesisPage, intervalPage, layout>>

InitSamplePage ==
  /\ PageAsBuilt
  /\ args = Null
  /\ returned = Null

NextSamplePage ==
  \/ \E v \in ParameterTypes : setParameterType(v)
  \/ \E v \in ConfidenceItems : setConfidenceLevel(v)
  \/ \E v \in MarginTexts : setMarginOfError(v)
  \/ \E v \in ProportionTexts : setProportion(v)
  \/ \E v \in SigmaTexts : setSigma(v)
  \/ \E v \in PopulationTexts : setPopulationSize(v)
  \/ handleCalculateSampleSize

SpecSamplePage == InitSamplePage /\ [][NextSamplePage]_vars

\* the fields of the form
SampleForm(p) ==
  <<p.parameterType, p.confidenceLevel, p.marginOfError, p.proportion, p.sigma,
    p.populationSize>>

\* a step of handleCalculate: the form stays and an outcome is stored
SampleCalcStep ==
  /\ SampleForm(sampleSizePage') = SampleForm(sampleSizePage)
  /\ sampleSizePage'.results # Null \/ sampleSizePage'.error # NoError

MarginOf(p) == parseFloat64(p.marginOfError)
SpreadOf(p) ==
  parseFloat64(IF p.parameterType = "proportion" THEN p.proportion ELSE p.sigma)

\* the form passes the validation of lines 49-73
PassesValidation(p) ==
  /\ p.confidenceLevel \in DOMAIN Z_SCORES
  /\ F64Gt(MarginOf(p), F64Zero0) /\ F64Lt(MarginOf(p), F64One)
  /\ IF p.parameterType = "proportion"
     THEN F64Ge(SpreadOf(p), F64Zero0) /\ F64Le(SpreadOf(p), F64One)
     ELSE F64Gt(SpreadOf(p), F64Zero0)

\* the n0 computed from a form that passes the validation
N0Of(p) ==
  sampleN0(p, F64OfDec(Z_SCORES[p.confidenceLevel], 3), MarginOf(p), SpreadOf(p))

\* a population size N > 0 is supplied
PopulationSupplied(p) ==
  /\ p.populationSize # BadTxt
  /\ F64Gt(parseFloat64(p.populationSize), F64Zero0)

ExceedsMessage == "Required sample size exceeds population size"

\* C13: when a population size N > 0 is supplied and the computed n0 exceeds
\* N, handleCalculate ends with the error 'Required sample size exceeds
\* population size' and stores no result.
C13_ExceedsPopulation ==
  [][(/\ SampleCalcStep
      /\ PassesValidation(sampleSizePage)
      /\ PopulationSupplied(sampleSizePage)
      /\ F64Gt(N0Of(sampleSizePage), parseFloat64(sampleSizePage.populationSize)))
     => (/\ sampleSizePage'.error = ExceedsMessage
         /\ sampleSizePage'.results = Null)]_vars

\* the default form with a population of 100: n0 = 385 exceeds it
C13_Witness ==
  /\ sampleSizePage.populationSize = Txt(100, 0)
  /\ sampleSizePage.proportion = Txt(5, 1)
  /\ sampleSizePage.marginOfError = Txt(5, 2)
  /\ sampleSizePage.confidenceLevel = 95
  /\ sampleSizePage.parameterType = "proportion"
  /\ sampleSizePage.error = ExceedsMessage
  /\ sampleSizePage.results = Null

\* C14: the n0 and the nAdjusted that handleCalculate stores are finite
\* numbers, never NaN or an infinity.
C14_FiniteSampleSizes ==
  sampleSizePage.results # Null =>
    /\ F64IsFinite(sampleSizePage.results[1].n0)
    /\ sampleSizePage.results[1].nAdjusted # Null
         => F64IsFinite(sampleSizePage.results[1].nAdjusted[1])

(***************************************************************************)
(* The functions on data of lib/statistics.ts, in doubles.  A data field   *)
(* holds the tokens between its commas and spaces, each a number's text or *)
(* a text that is no number.  Math.pow(v, 2) is v * v.                     *)
(***************************************************************************)
\* F(v), with v evaluated once
With(v, F(_)) == CHOOSE r \in {F(w) : w \in {v}} : TRUE

\* lines 139-146
parseDataInput(input) ==
  SelectSeq([i \in 1..Len(input) |-> parseFloat64(input[i])],
            LAMBDA n : ~F64IsNaN(n))

\* reduce((sum, val) => sum + val, acc) over s[i..]
RECURSIVE F64SumFrom(_, _, _)
F64SumFrom(s, acc, i) ==
  IF i > Len(s) THEN acc ELSE F64SumFrom(s, F64Add(acc, s[i]), i + 1)

F64Sum(s) == F64SumFrom(s, F64Zero0, 1)

F64Square(v) == F64Mul(v, v)

\* reduce((sum, val) => sum + Math.pow(val - mean, 2), 0)
F64SumSquares(s, mean) ==
  F64Sum([i \in 1..Len(s) |-> F64Square(F64Sub(s[i], mean))])

\* lines 103-105
calculateMean(data) == F64Div(F64Sum(data), F64OfInt(Len(data)))

\* Array.prototype.flat of groups[i..]
RECURSIVE FlatFrom(_, _)
FlatFrom(groups, i) ==
  IF i > Len(groups) THEN <<>> ELSE groups[i] \o FlatFrom(groups, i + 1)

\* the decimal nearest below the double x, and the double nearest to the
\* decimal v
DOfF64(x) ==
  IF x.m = <<>> THEN BigZero
  ELSE IF x.e >= 0 THEN Big(x.neg, MagMul(MagMul(x.m, Pow2(x.e)), DOne.mag))
  ELSE Big(x.neg, MagDiv(MagMul(x.m, DOne.mag), Pow2(-x.e)))

F64OfD(v) == F64OfDecimal(v.neg, v.mag, DOne.mag)

\* lines 384-387, for 0 < x < 1.  An x below the resolution of the decimals
\* is below 10^-20: with d2 >= 2, incompleteBeta(d2 / 2, d1 / 2, x) is then
\* below 2^-54, and 1 minus it is the double 1.
fCDFAt(x, d1, d2) ==
  With(DOfF64(x), LAMBDA v :
    IF BigIsZero(v) THEN F64One
    ELSE F64OfD(BigSub(DOne, incompleteBeta(DDivInt(DInt(d2), 2),
                                            DDivInt(DInt(d1), 2), v))))

\* lines 255-267 and 386: x is NaN, 0, 1 or between
fCDFOf(x, d1, d2) ==
  IF F64IsNaN(x) THEN x
  ELSE IF F64IsZero(x) THEN F64One
  ELSE IF F64Eq(x, F64One) THEN F64Zero0
  ELSE fCDFAt(x, d1, d2)

\* lines 384-387
fCDF(f, d1, d2) ==
  fCDFOf(F64Div(F64OfInt(d2), F64Add(F64OfInt(d2), F64Mul(F64OfInt(d1), f))),
         d1, d2)

\* lines 349 and 352-355
ssBetweenOf(groups, groupMeans, grandMean) ==
  F64Sum([i \in 1..Len(groups) |->
            F64Mul(F64OfInt(Len(groups[i])),
                   F64Square(F64Sub(groupMeans[i], grandMean)))])

ssWithinOf(groups, groupMeans) ==
  F64Sum([i \in 1..Len(groups) |-> F64SumSquares(groups[i], groupMeans[i])])

\* lines 357-381, from the sums of squares and the mean squares
anovaResult(s) ==
  [fStatistic |-> s.fStatistic,
   pValue |-> F64Sub(F64One, fCDF(s.fStatistic, s.dfBetween, s.dfWithin)),
   dfBetween |-> s.dfBetween, dfWithin |-> s.dfWithin,
   ssBetween |-> s.ssBetween, ssWithin |-> s.ssWithin,
   ssTotal |-> F64Add(s.ssBetween, s.ssWithin),
   msBetween |-> s.msBetween, msWithin |-> s.msWithin,
   grandMean |-> s.grandMean, groupMeans |-> s.groupMeans]

\* lines 340-365: k groups of N observations in all
anovaOf(groups, k, N) ==
  With(calculateMean(FlatFrom(groups, 1)), LAMBDA grandMean :
    With([i \in 1..k |-> calculateMean(groups[i])], LAMBDA groupMeans :
      With(ssBetweenOf(groups, groupMeans, grandMean), LAMBDA ssBetween :
        With(ssWithinOf(groups, groupMeans), LAMBDA ssWithin :
          With(F64Div(ssBetween, F64OfInt(k - 1)), LAMBDA msBetween :
            With(F64Div(ssWithin, F64OfInt(N - k)), LAMBDA msWithin :
              [dfBetween |-> k - 1, dfWithin |-> N - k,
               ssBetween |-> ssBetween, ssWithin |-> ssWithin,
               msBetween |-> msBetween, msWithin |-> msWithin,
               fStatistic |-> F64Div(msBetween, msWithin),
               grandMean |-> grandMean, groupMeans |-> groupMeans]))))))

\* lines 327-381
oneWayAnova(groups) ==
  With(anovaOf(groups, Len(groups), Len(FlatFrom(groups, 1))),
       LAMBDA s : anovaResult(s))

\* line 408
ssXYOf(x, y, meanX, meanY) ==
  F64Sum([i \in 1..Len(x) |->
            F64Mul(F64Sub(x[i], meanX), F64Sub(y[i], meanY))])

\* lines 416-432
regressionResult(n, meanX, ssXX, ssYY, slope, intercept, predictions, residuals, ssResidual, mse) ==
  [slope |-> slope, intercept |-> intercept,
   rSquared |-> F64Sub(F64One, F64Div(ssResidual, ssYY)),
   standardErrorSlope |-> F64Sqrt(F64Div(mse, ssXX)),
   standardErrorIntercept |->
     F64Sqrt(F64Mul(mse, F64Add(F64Div(F64One, F64OfInt(n)),
                                F64Div(F64Mul(meanX, meanX), ssXX)))),
   predictions |-> predictions, residuals |-> residuals]

\* lines 413-419, from the line fitted
regressionFit(x, y, meanX, ssXX, ssYY, slope, intercept) ==
  With([i \in 1..Len(x) |-> F64Add(intercept, F64Mul(slope, x[i]))],
       LAMBDA predictions :
    With([i \in 1..Len(y) |-> F64Sub(y[i], predictions[i])],
         LAMBDA residuals :
      With(F64Sum([i \in 1..Len(residuals) |->
                     F64Mul(residuals[i], residuals[i])]),
           LAMBDA ssResidual :
        regressionResult(Len(x), meanX, ssXX, ssYY, slope, intercept,
                         predictions, residuals, ssResidual,
                         F64Div(ssResidual, F64OfInt(Len(x) - 2))))))

\* lines 406-411, from the means
regressionOf(x, y, meanX, meanY) ==
  With(F64SumSquares(x, meanX), LAMBDA ssXX :
    With(F64SumSquares(y, meanY), LAMBDA ssYY :
      With(F64Div(ssXYOf(x, y, meanX, meanY), ssXX), LAMBDA slope :
        With(F64Sub(meanY, F64Mul(slope, meanX)), LAMBDA intercept :
          regressionFit(x, y, meanX, ssXX, ssYY, slope, intercept)))))

\* lines 390-432
linearRegression(x, y) ==
  With(calculateMean(x), LAMBDA meanX :
    With(calculateMean(y), LAMBDA meanY : regressionOf(x, y, meanX, meanY)))

(***************************************************************************)
(* The ANOVA & Regression page.  The three group fields and the ANOVA      *)
(* button are on the tab "anova", the fields of x and y and the regression *)
(* button on the tab "regression"; the fields are filled in before the     *)
(* first calculation.                                                      *)
(***************************************************************************)
\* lines 1758-1763
anovaStored(groups, result) ==
  <<[fStatistic |-> result.fStatistic, pValue |-> result.pValue,
     dfBetween |-> result.dfBetween, dfWithin |-> result.dfWithin,
     ssBetween |-> result.ssBetween, ssWithin |-> result.ssWithin,
     ssTotal |-> result.ssTotal, msBetween |-> result.msBetween,
     msWithin |-> result.msWithin, grandMean |-> result.grandMean,
     groupMeans |-> result.groupMeans, groupData |-> groups,
     alpha |-> F64OfDec(5, 2),
     rejectNull |-> F64Lt(result.pValue, F64OfDec(5, 2))]>>

\* lines 1745-1763: groups are the fields parsed that hold a number
anovaChecked(groups) ==
  IF Len(groups) < 2
  THEN [anovaResults |-> Null,
        error |-> "Please enter at least 2 groups with data"]
  ELSE IF \E i \in 1..Len(groups) : Len(groups[i]) < 2
  THEN [anovaResults |-> Null,
        error |-> "Each group must have at least 2 observations"]
  ELSE [anovaResults |-> anovaStored(groups, oneWayAnova(groups)),
        error |-> NoError]

\* lines 1739-1764: what handleAnovaCalculate leaves in anovaResults and error
anovaOutcome(p) ==
  anovaChecked(SelectSeq([i \in 1..3 |->
                            parseDataInput(<<p.group1, p.group2, p.group3>>[i])],
                         LAMBDA g : Len(g) > 0))

\* lines 1785-1792
regressionStored(x, y, result) ==
  <<[slope |-> result.slope, intercept |-> result.intercept,
     rSquared |-> result.rSquared,
     standardErrorSlope |-> result.standardErrorSlope,
     standardErrorIntercept |-> result.standardErrorIntercept,
     predictions |-> result.predictions, residuals |-> result.residuals,
     xData |-> x, yData |-> y, n |-> Len(x),
     meanX |-> calculateMean(x), meanY |-> calculateMean(y)]>>

\* lines 1773-1792
regressionChecked(x, y) ==
  IF Len(x) < 3
  THEN [regressionResults |-> Null,
        error |-> "Please enter at least 3 data points for X"]
  ELSE IF Len(x) # Len(y)
  THEN [regressionResults |-> Null,
        error |-> "X and Y must have the same number of values"]
  ELSE [regressionResults |-> regressionStored(x, y, linearRegression(x, y)),
        error |-> NoError]

\* lines 1766-1793
regressionOutcome(p) ==
  regressionChecked(parseDataInput(p.xData), parseDataInput(p.yData))

Tabs == {"anova", "regression"}
Group1Texts == {<<Txt(1, 0), Txt(1, 0)>>}
Group2Texts == {<<Txt(2, 0), BadTxt, Txt(2, 0)>>}
Group3Texts == {<<Txt(1, 0), Txt(3, 0)>>, <<Txt(5, 0)>>}
XTexts == {<<Txt(1, 0), Txt(1, 0), Txt(1, 0)>>, <<Txt(1, 0), Txt(2, 0), Txt(3, 0)>>}
YTexts == {<<Txt(1, 0), Txt(2, 0), Txt(4, 0)>>, <<Txt(5, 0), Txt(5, 0), Txt(5, 0)>>}

NothingCalculated ==
  /\ anovaPage.anovaResults = Null
  /\ anovaPage.regressionResults = Null
  /\ anovaPage.error = NoError

SetData(tab, field, v) ==
  /\ anovaPage.activeTab = tab
  /\ NothingCalculated
  /\ anovaPage' = [anovaPage EXCEPT ![field] = v]
  /\ UNCHANGED <<lpVars, callVars, sampleSizePage, hypothesisPage, intervalPage, layout>>

setGroup1(v) == SetData("anova", "group1", v)
setGroup2(v) == SetData("anova", "group2", v)
setGroup3(v) == SetData("anova", "group3", v)
setXData(v) == SetData("regression", "xData", v)
setYData(v) == SetData("regression", "yData", v)

\* line 1803
setActiveTab(tab) ==
  /\ anovaPage' = [anovaPage EXCEPT !.activeTab = tab]
  /\ UNCHANGED <<lpVars, callVars, sampleSizePage, hypothesisPage, intervalPage, layout>>

WithAnova(p, o) ==
  [p EXCEPT !.anovaResults = o.anovaResults, !.error = o.error]

handleAnovaCalculate ==
  /\ anovaPage.activeTab = "anova"
  /\ anovaPage' = WithAnova(anovaPage, anovaOutcome(anovaPage))
  /\ UNCHANGED <<lpVars, callVars, sampleSizePage, hypothesisPage, intervalPage, layout>>

WithRegression(p, o) ==
  [p EXCEPT !.regressionResults = o.regressionResults, !.error = o.error]

handleRegressionCalculate ==
  /\ anovaPage.activeTab = "regression"
  /\ anovaPage' = WithRegression(anovaPage, regressionOutcome(anovaPage))
  /\ UNCHANGED <<lpVars, callVars, sampleSizePage, hypothesisPage, intervalPage, layout>>

InitAnovaPage ==
  /\ PageAsBuilt
  /\ args = Null
  /\ returned = Null

NextAnovaPage ==
  \/ \E v \in Group1Texts : setGroup1(v)
  \/ \E v \in Group2Texts : setGroup2(v)
  \/ \E v \in Group3Texts : setGroup3(v)
  \/ \E v \in XTexts : setXData(v)
  \/ \E v \in YTexts : setYData(v)
  \/ \E tab \in Tabs : setActiveTab(tab)
  \/ handleAnovaCalculate
  \/ handleRegressionCalculate

SpecAnovaPage == InitAnovaPage /\ [][NextAnovaPage]_vars

\* C15: nothing that the ANOVA & Regression page stores is NaN or an
\* infinity: fStatistic, pValue and msWithin of the ANOVA, and slope,
\* intercept, rSquared and both standard errors of the regression are finite.
C15_StoredFinite ==
  /\ anovaPage.anovaResults # Null =>
       /\ F64IsFinite(anovaPage.anovaResults[1].fStatistic)
       /\ F64IsFinite(anovaPage.anovaResults[1].pValue)
       /\ F64IsFinite(anovaPage.anovaResults[1].msWithin)
  /\ anovaPage.regressionResults # Null =>
       /\ F64IsFinite(anovaPage.regressionResults[1].slope)
       /\ F64IsFinite(anovaPage.regressionResults[1].intercept)
       /\ F64IsFinite(anovaPage.regressionResults[1].rSquared)
       /\ F64IsFinite(anovaPage.regressionResults[1].standardErrorSlope)
       /\ F64IsFinite(anovaPage.regressionResults[1].standardErrorIntercept)

(***************************************************************************)
(* Calls of oneWayAnova and linearRegression: args holds the function and  *)
(* its arguments, returned what the call returned.                         *)
(***************************************************************************)
\* the numbers of a data field
DataOf(digits, decimals) ==
  [i \in 1..Len(digits) |-> F64OfDec(digits[i], decimals)]

AnovaGroups ==
  {DataOf(<<1, 1>>, 0), DataOf(<<2, 2>>, 0), DataOf(<<1, 3>>, 0),
   DataOf(<<1, 2>>, 1), DataOf(<<1, 1, 1>>, 1),
   DataOf(<<1000000001, 1000000002>>, 1),
   DataOf(<<1000000003, 1000000004>>, 1)}

\* two groups, or three of whole numbers
AnovaCalls ==
  {<<a, b>> : a \in AnovaGroups, b \in AnovaGroups}
    \cup {<<DataOf(<<1, 1>>, 0), b, DataOf(<<1, 3>>, 0)>> : b \in AnovaGroups}

RegressionX ==
  {DataOf(<<1, 2, 3>>, 0), DataOf(<<1, 1, 1>>, 0), DataOf(<<1, 2, 3>>, 1),
   DataOf(<<12, 17, 16>>, 1), DataOf(<<1, 2, 3, 4>>, 0)}

RegressionY ==
  {DataOf(<<1, 2, 4>>, 0), DataOf(<<5, 5, 5>>, 0), DataOf(<<2, 4, 6>>, 0),
   DataOf(<<16, 17, 14>>, 1), DataOf(<<11, 19, 32, 39>>, 1)}

InitData ==
  /\ PageAsBuilt
  /\ \/ \E g \in AnovaCalls : args = [fn |-> "oneWayAnova", groups |-> g]
     \/ \E x \in RegressionX, y \in RegressionY :
          /\ Len(x) = Len(y)
          /\ args = [fn |-> "linearRegression", x |-> x, y |-> y]
  /\ returned = <<>>

callOneWayAnova ==
  /\ args.fn = "oneWayAnova"
  /\ returned = <<>>
  /\ returned' = <<oneWayAnova(args.groups)>>
  /\ UNCHANGED <<args, lpVars, pages>>

callLinearRegression ==
  /\ args.fn = "linearRegression"
  /\ returned = <<>>
  /\ returned' = <<linearRegression(args.x, args.y)>>
  /\ UNCHANGED <<args, lpVars, pages>>

NextData == callOneWayAnova \/ callLinearRegression

SpecData == InitData /\ [][NextData]_vars

\* the least exponent of the doubles of s
MinExp(s) ==
  CHOOSE e \in {s[i].e : i \in 1..Len(s)} : \A i \in 1..Len(s) : e <= s[i].e

\* the integer x / 2^e, for a double x and an e <= x.e
ScaledTo(x, e) == Big(x.neg, MagMul(x.m, Pow2(x.e - e)))

RECURSIVE BigSumFrom(_, _)
BigSumFrom(s, i) ==
  IF i > Len(s) THEN BigZero ELSE BigAdd(s[i], BigSumFrom(s, i + 1))

\* num * 2^e / den as a rational
ExactScaled(num, den, e) ==
  IF e >= 0 THEN Q(BigMul(num, Big(FALSE, Pow2(e))), den)
  ELSE Q(num, BigMul(den, Big(FALSE, Pow2(-e))))

\* the sum of the squares of the integers n * a[i] - sum, which are n / 2^e
\* times the deviations of the values a[i] * 2^e from their mean
ExactDeviations(a, n, sum, e) ==
  ExactScaled(BigSumFrom([i \in 1..n |->
                            BigMul(BigSub(BigMul(BigOf(n), a[i]), sum),
                                   BigSub(BigMul(BigOf(n), a[i]), sum))], 1),
              BigOf(n * n), 2 * e)

ExactScaledSS(a, e) == ExactDeviations(a, Len(a), BigSumFrom(a, 1), e)

ExactSSAt(s, e) == ExactScaledSS([i \in 1..Len(s) |-> ScaledTo(s[i], e)], e)

\* the exact sum of the squared deviations of the doubles of s from their
\* exact mean
ExactTotalSS(s) == ExactSSAt(s, MinExp(s))

\* |a - b| <= 10^-9 * |scale|
WithinScale(a, b, scale) ==
  QLe(QAbs(QSub(a, b)), QMul(QDec(1, 9), QAbs(scale)))

\* C16: the ssTotal that oneWayAnova returns is ssBetween + ssWithin, and it
\* is the total sum of the squared deviations of the pooled observations from
\* their mean, within a relative tolerance of 10^-9.
C16_Decomposition ==
  (returned # <<>> /\ args.fn = "oneWayAnova") =>
    /\ returned[1].ssTotal = F64Add(returned[1].ssBetween, returned[1].ssWithin)
    /\ F64IsFinite(returned[1].ssTotal)
    /\ WithinScale(F64Exact(returned[1].ssTotal),
                       ExactTotalSS(FlatFrom(args.groups, 1)),
                       ExactTotalSS(FlatFrom(args.groups, 1)))

\* the sum of the exact values of the finite doubles of s
RECURSIVE ExactSumFrom(_, _)
ExactSumFrom(s, i) ==
  IF i > Len(s) THEN QInt(0) ELSE QAdd(F64Exact(s[i]), ExactSumFrom(s, i + 1))

\* the greatest |s[i]|
LargestOf(s) ==
  F64Abs(s[CHOOSE i \in 1..Len(s) : \A j \in 1..Len(s) : F64Le(F64Abs(s[j]), F64Abs(s[i]))])

\* C17: the residuals that linearRegression returns are y[i] - predictions[i]
\* with predictions[i] = intercept + slope * x[i], and their mean is 0 within
\* 10^-9 of the scale of the data.
C17_Residuals ==
  (returned # <<>> /\ args.fn = "linearRegression") =>
    /\ \A i \in 1..Len(args.x) :
         /\ F64Eq(returned[1].predictions[i],
                  F64Add(returned[1].intercept,
                         F64Mul(returned[1].slope, args.x[i])))
         /\ F64Eq(returned[1].residuals[i],
                  F64Sub(args.y[i], returned[1].predictions[i]))
         /\ F64IsFinite(returned[1].residuals[i])
    /\ WithinScale(ExactSumFrom(returned[1].residuals, 1), QInt(0),
                       QMul(QInt(Len(args.y)), F64Exact(LargestOf(args.y))))

\* C18: the rSquared that linearRegression returns is in 0..1.
C18_RSquaredInRange ==
  (returned # <<>> /\ args.fn = "linearRegression") =>
    /\ F64Ge(returned[1].rSquared, F64Zero0)
    /\ F64Le(returned[1].rSquared, F64One)

(***************************************************************************)
(* calculateSeasonalIndices.  Index i of the code is position i + 1 of a   *)
(* sequence; an entry of movingAverages or ratios is Null or <<number>>.   *)
(***************************************************************************)
\* line 452 with a whole period, not half of one, unanchored at each end
UnanchoredByPeriod(n, halfPeriod, i) ==
  i - 1 < 2 * halfPeriod \/ i - 1 >= n - 2 * halfPeriod

\* line 452, for the position i of 1..n
Unanchored(n, halfPeriod, i) == i - 1 < halfPeriod \/ i - 1 >= n - halfPeriod

\* lines 456-467: the terms of the window of position i, k = 1..2*halfPeriod+1
windowTerm(data, periodsPerSeason, halfPeriod, i, k) ==
  IF periodsPerSeason % 2 = 0 /\ (k = 1 \/ k = 2 * halfPeriod + 1)
  THEN F64Div(data[i - halfPeriod + k - 1], F64OfInt(2))
  ELSE data[i - halfPeriod + k - 1]

\* lines 455-468
movingAverageAt(data, periodsPerSeason, halfPeriod, i) ==
  F64Div(F64Sum([k \in 1..(2 * halfPeriod + 1) |->
                   windowTerm(data, periodsPerSeason, halfPeriod, i, k)]),
         F64OfInt(periodsPerSeason))

\* lines 451-472 with the entry after the leading nulls null as well
movingAveragesLate(data, periodsPerSeason, halfPeriod) ==
  [i \in 1..Len(data) |->
     IF Unanchored(Len(data), halfPeriod, i) \/ i - 1 = halfPeriod THEN Null
     ELSE <<movingAverageAt(data, periodsPerSeason, halfPeriod, i)>>]

\* lines 451-472
movingAveragesOf(data, periodsPerSeason, halfPeriod) ==
  [i \in 1..Len(data) |->
     IF Unanchored(Len(data), halfPeriod, i) THEN Null
     ELSE <<movingAverageAt(data, periodsPerSeason, halfPeriod, i)>>]

\* line 470
ratiosOf(data, movingAverages) ==
  [i \in 1..Len(data) |->
     IF movingAverages[i] = Null THEN Null
     ELSE <<F64Div(data[i], movingAverages[i][1])>>]

\* lines 477-483: the ratios of the season s of 0..periodsPerSeason-1, in
\* the order of the series
seasonRatios(ratios, periodsPerSeason, s) ==
  SelectSeq([i \in 1..Len(ratios) |->
               IF (i - 1) % periodsPerSeason = s THEN ratios[i] ELSE Null],
            LAMBDA r : r # Null)

\* line 486, from the ratios of a season
rawIndexFrom(rs) ==
  IF Len(rs) > 0
  THEN F64Div(F64Sum([k \in 1..Len(rs) |-> rs[k][1]]), F64OfInt(Len(rs)))
  ELSE F64One

rawIndexOf(rs) == With(rs, LAMBDA ratios : rawIndexFrom(ratios))

\* lines 489-495
seasonalResult(data, periodsPerSeason, movingAverages, ratios, indices) ==
  [indices |-> indices,
   deseasonalized |->
     [i \in 1..Len(data) |->
        F64Div(data[i], indices[((i - 1) % periodsPerSeason) + 1])],
   movingAverages |-> movingAverages, ratios |-> ratios]

\* lines 474-495, from the moving averages and the ratios
seasonalOf(data, periodsPerSeason, movingAverages, ratios) ==
  With([s \in 1..periodsPerSeason |->
          rawIndexOf(seasonRatios(ratios, periodsPerSeason, s - 1))],
       LAMBDA rawIndices :
    With(F64Div(F64Sum(rawIndices), F64OfInt(periodsPerSeason)),
         LAMBDA avgIndex :
      With([s \in 1..periodsPerSeason |-> F64Div(rawIndices[s], avgIndex)],
           LAMBDA indices :
        seasonalResult(data, periodsPerSeason, movingAverages, ratios,
                       indices))))

\* lines 435-495
calculateSeasonalIndices(data, periodsPerSeason) ==
  With(movingAveragesOf(data, periodsPerSeason, periodsPerSeason \div 2),
       LAMBDA movingAverages :
    With(ratiosOf(data, movingAverages), LAMBDA ratios :
      seasonalOf(data, periodsPerSeason, movingAverages, ratios)))

(***************************************************************************)
(* Calls of calculateSeasonalIndices on the first n values of a series,    *)
(* which repeats after its last value.                                     *)
(***************************************************************************)
SeriesLength == 8

FirstOf(s, n) == [i \in 1..n |-> s[((i - 1) % Len(s)) + 1]]

Series ==
  {DataOf(<<10, 20, 30, 40, 12, 22, 33, 41>>, 0),
   DataOf(<<0, 0, 0, 0, 0, 0, 0, 0>>, 0),
   DataOf(<<-1, 1, -1, 1, -1, 1, -1, 1>>, 0),
   DataOf(<<11, 23, 7, 19, 12, 25, 8, 21>>, 1)}

Periods == {2, 3, 4}

InitSeasonal ==
  /\ PageAsBuilt
  /\ \E s \in Series, n \in 2..SeriesLength, P \in Periods :
       args = [fn |-> "calculateSeasonalIndices", data |-> FirstOf(s, n),
               periodsPerSeason |-> P]
  /\ returned = <<>>

callSeasonalIndices ==
  /\ returned = <<>>
  /\ returned' = <<calculateSeasonalIndices(args.data, args.periodsPerSeason)>>
  /\ UNCHANGED <<args, lpVars, pages>>

NextSeasonal == callSeasonalIndices

SpecSeasonal == InitSeasonal /\ [][NextSeasonal]_vars

\* C19: for a series of at least 2 * P values, P >= 2, there are exactly P
\* indices and they average 1.0 within 10^-9.
C19_IndicesAverageOne ==
  (/\ returned # <<>>
   /\ args.periodsPerSeason >= 2
   /\ Len(args.data) >= 2 * args.periodsPerSeason) =>
    /\ Len(returned[1].indices) = args.periodsPerSeason
    /\ \A s \in 1..args.periodsPerSeason : F64IsFinite(returned[1].indices[s])
    /\ WithinScale(ExactSumFrom(returned[1].indices, 1),
                   QInt(args.periodsPerSeason), QInt(args.periodsPerSeason))

\* C20: movingAverages, ratios and deseasonalized have the length n of the
\* series, and movingAverages[i] and ratios[i] are null exactly at the
\* indices i < floor(P / 2) and i >= n - floor(P / 2), i counted from 0.
C20_NullAtTheEnds ==
  returned # <<>> =>
    /\ Len(returned[1].movingAverages) = Len(args.data)
    /\ Len(returned[1].ratios) = Len(args.data)
    /\ Len(returned[1].deseasonalized) = Len(args.data)
    /\ \A i \in 0..(Len(args.data) - 1) :
         /\ returned[1].movingAverages[i + 1] = Null
              <=> (\/ i < args.periodsPerSeason \div 2
                   \/ i >= Len(args.data) - args.periodsPerSeason \div 2)
         /\ returned[1].ratios[i + 1] = Null
              <=> returned[1].movingAverages[i + 1] = Null

\* quarterly data of two years: null at 0, 1, 6 and 7, defined at 2..5
C20_Witness ==
  /\ returned # <<>>
  /\ Len(args.data) = 8
  /\ args.periodsPerSeason = 4
  /\ {i \in 0..7 : returned[1].movingAverages[i + 1] = Null} = {0, 1, 6, 7}
  /\ {i \in 0..7 : returned[1].ratios[i + 1] = Null} = {0, 1, 6, 7}

(***************************************************************************)
(* The hypothesis-test page (src/app/confidence-interval/page.tsx, lines   *)
(* 572-1674).                                                              *)
(***************************************************************************)
F64Two == F64OfInt(2)

Alternatives == {"two-tailed", "left-tailed", "right-tailed"}

\* lines 682-689 with the test of the right tail that of the left tail
adjustPValueSameTail(twoTailedP, statistic, alt) ==
  IF alt = "two-tailed" THEN twoTailedP
  ELSE IF F64Lt(statistic, F64Zero0) THEN F64Div(twoTailedP, F64Two)
  ELSE F64Sub(F64One, F64Div(twoTailedP, F64Two))

\* lines 682-689
adjustPValueForAlternative(twoTailedP, statistic, alt) ==
  IF alt = "two-tailed" THEN twoTailedP
  ELSE IF alt = "left-tailed"
  THEN IF F64Lt(statistic, F64Zero0) THEN F64Div(twoTailedP, F64Two)
       ELSE F64Sub(F64One, F64Div(twoTailedP, F64Two))
  ELSE IF F64Gt(statistic, F64Zero0) THEN F64Div(twoTailedP, F64Two)
       ELSE F64Sub(F64One, F64Div(twoTailedP, F64Two))

(***************************************************************************)
(* Calls of adjustPValueForAlternative with one p-value and one statistic, *)
(* a call for each alternative, in any order.  returned maps the           *)
(* alternatives called so far to what the calls returned.                  *)
(***************************************************************************)
\* p-values: 0, 1 and decimals between
AdjustP ==
  {F64OfDec(d, 2) : d \in {0, 1, 5, 10, 30, 50, 70, 100}}
    \cup {F64OfDec(1, 17), F64OfDec(9999, 4), F64OfDec(123456789, 9)}

\* statistics: negative, zero, positive and infinite
AdjustStatistic ==
  {F64OfDec(d, 2) : d \in {-250, -1, 0, 1, 196}}
    \cup {F64Zero(TRUE), F64Inf(FALSE), F64Inf(TRUE)}

NoCalls == [alt \in {} |-> F64NaN]

InitAdjust ==
  /\ PageAsBuilt
  /\ \E p \in AdjustP, s \in AdjustStatistic :
       args = [fn |-> "adjustPValueForAlternative", twoTailedP |-> p,
               statistic |-> s]
  /\ returned = NoCalls

callAdjustPValue(alt) ==
  /\ alt \notin DOMAIN returned
  /\ returned' =
       [a \in DOMAIN returned \cup {alt} |->
          IF a = alt
          THEN adjustPValueForAlternative(args.twoTailedP, args.statistic, alt)
          ELSE returned[a]]
  /\ UNCHANGED <<args, lpVars, pages>>

NextAdjust == \E alt \in Alternatives : callAdjustPValue(alt)

SpecAdjust == InitAdjust /\ [][NextAdjust]_vars

InUnit(v) == F64Ge(v, F64Zero0) /\ F64Le(v, F64One)

\* C21: adjustPValueForAlternative(p, statistic, tail) is p for two-tailed,
\* for left-tailed p/2 if statistic < 0 and 1 - p/2 otherwise, for
\* right-tailed p/2 if statistic > 0 and 1 - p/2 otherwise; for a statistic
\* that is not 0 the left-tailed and the right-tailed values sum to 1; and
\* with p in [0,1] every value returned is in [0,1].
C21_TailsOfP ==
  LET p == args.twoTailedP
      s == args.statistic
      halved == F64Div(p, F64Two)
      complement == F64Sub(F64One, halved)
      called == DOMAIN returned
  IN  /\ "two-tailed" \in called => returned["two-tailed"] = p
      /\ "left-tailed" \in called =>
           returned["left-tailed"] = IF F64Lt(s, F64Zero0) THEN halved ELSE complement
      /\ "right-tailed" \in called =>
           returned["right-tailed"] = IF F64Gt(s, F64Zero0) THEN halved ELSE complement
      /\ ({"left-tailed", "right-tailed"} \subseteq called /\ ~F64IsZero(s)) =>
           F64Eq(F64Add(returned["left-tailed"], returned["right-tailed"]),
                 F64One)
      /\ \A a \in called : InUnit(p) => InUnit(returned[a])

\* p = 0.3 and the statistic -2.5: 0.15 to the left, 0.85 to the right
C21_Witness ==
  /\ args.twoTailedP = F64OfDec(30, 2)
  /\ args.statistic = F64OfDec(-250, 2)
  /\ DOMAIN returned = Alternatives
  /\ returned["left-tailed"] = F64OfDec(15, 2)
  /\ returned["right-tailed"] = F64OfDec(85, 2)

(***************************************************************************)
(* The tests of lib/statistics.ts (src/unnamed/part_002, lines 153-222) in *)
(* doubles.  normalCDF and tCDF are computed in decimals and rounded to    *)
(* the nearest double.                                                     *)
(***************************************************************************)
\* normalCDF (lines 225-240) of a double z >= 0
normalCDF64(z) ==
  IF F64IsNaN(z) THEN z
  ELSE IF ~F64IsFinite(z) THEN F64One
  ELSE F64OfD(normalCDF(DOfF64(z)))

\* tCDF (lines 243-252) of doubles t >= 0 and df
tCDF64(t, df) ==
  IF F64IsNaN(t) \/ F64IsNaN(df) THEN F64NaN
  ELSE IF ~F64IsFinite(t) THEN F64One
  ELSE F64OfD(tCDF(DOfF64(t), DOfF64(df)))

\* 2 * (1 - cdf)
twoTailed(cdf) == F64Mul(F64Two, F64Sub(F64One, cdf))

\* lines 153-163
zTestProportion(sampleProportion, hypothesizedProportion, n) ==
  With(F64Div(F64Sub(sampleProportion, hypothesizedProportion),
              F64Sqrt(F64Div(F64Mul(hypothesizedProportion,
                                    F64Sub(F64One, hypothesizedProportion)),
                             n))),
       LAMBDA zStatistic :
         [statistic |-> zStatistic,
          pValue |-> twoTailed(normalCDF64(F64Abs(zStatistic))), df |-> Null])

\* lines 166-177
zTestMean(sampleMean, hypothesizedMean, sigma, n) ==
  With(F64Div(F64Sub(sampleMean, hypothesizedMean),
              F64Div(sigma, F64Sqrt(n))),
       LAMBDA zStatistic :
         [statistic |-> zStatistic,
          pValue |-> twoTailed(normalCDF64(F64Abs(zStatistic))), df |-> Null])

\* lines 180-192
tTestMean(sampleMean, hypothesizedMean, sampleStdDev, n) ==
  With(F64Div(F64Sub(sampleMean, hypothesizedMean),
              F64Div(sampleStdDev, F64Sqrt(n))),
       LAMBDA tStatistic :
         [statistic |-> tStatistic,
          pValue |-> twoTailed(tCDF64(F64Abs(tStatistic), F64Sub(n, F64One))),
          df |-> <<F64Sub(n, F64One)>>])

\* lines 205-209: se and df with the variance pooled
pooledVariance(s1, s2, n1, n2) ==
  F64Div(F64Add(F64Mul(F64Mul(F64Sub(n1, F64One), s1), s1),
                F64Mul(F64Mul(F64Sub(n2, F64One), s2), s2)),
         F64Sub(F64Add(n1, n2), F64Two))

pooledError(s1, s2, n1, n2) ==
  F64Sqrt(F64Mul(pooledVariance(s1, s2, n1, n2),
                 F64Add(F64Div(F64One, n1), F64Div(F64One, n2))))

\* lines 211-215: Welch's df from v1 and v2
welchDf(v1, v2, n1, n2) ==
  F64Div(F64Square(F64Add(v1, v2)),
         F64Add(F64Div(F64Square(v1), F64Sub(n1, F64One)),
                F64Div(F64Square(v2), F64Sub(n2, F64One))))

\* lines 218-221
tTestWith(mean1, mean2, se, df) ==
  With(F64Div(F64Sub(mean1, mean2), se), LAMBDA tStatistic :
    [statistic |-> tStatistic,
     pValue |-> twoTailed(tCDF64(F64Abs(tStatistic), df)), df |-> <<df>>])

\* lines 195-222
twoSampleTTest(mean1, mean2, s1, s2, n1, n2, equalVariance) ==
  IF equalVariance
  THEN With(pooledError(s1, s2, n1, n2), LAMBDA se :
         tTestWith(mean1, mean2, se, F64Sub(F64Add(n1, n2), F64Two)))
  ELSE With(F64Div(F64Mul(s1, s1), n1), LAMBDA v1 :
         With(F64Div(F64Mul(s2, s2), n2), LAMBDA v2 :
           With(welchDf(v1, v2, n1, n2), LAMBDA df :
             tTestWith(mean1, mean2, F64Sqrt(F64Add(v1, v2)), df))))

(***************************************************************************)
(* The hypothesis-test page.  Its results are modelled without the inputs  *)
(* that they repeat.                                                       *)
(***************************************************************************)
\* Number.parseInt of an input's text that is not negative
parseInt64(t) ==
  IF t.ok THEN F64OfInt(t.digits \div (10 ^ t.decimals)) ELSE F64NaN

\* lines 691-706: the comparison with the manual p-value
calculateComparison(manualPValue, pValue, alpha) ==
  IF manualPValue # BadTxt /\ ~F64IsNaN(parseFloat64(manualPValue))
     /\ F64Ge(parseFloat64(manualPValue), F64Zero0)
     /\ F64Le(parseFloat64(manualPValue), F64One)
  THEN <<[manualPValue |-> parseFloat64(manualPValue),
          calculatedPValue |-> pValue,
          sameConclusion |-> (F64Lt(parseFloat64(manualPValue), alpha)
                                <=> F64Lt(pValue, alpha)),
          manualRejectNull |-> F64Lt(parseFloat64(manualPValue), alpha)]>>
  ELSE Null

\* lines 762-777, 805-818 and 852-869: setResults
hypothesisStored(p, a, result, pValue, se) ==
  Stored([testType |-> p.testType, standardError |-> se,
          testStatistic |-> result.statistic, df |-> result.df,
          pValue |-> pValue, alpha |-> a, alternative |-> p.alternative,
          rejectNull |-> F64Lt(pValue, a),
          comparison |-> calculateComparison(p.manualPValue, pValue, a)])

\* the result of a test, its p-value adjusted
hypothesisTested(p, a, result, se) ==
  With(adjustPValueForAlternative(result.pValue, result.statistic,
                                  p.alternative),
       LAMBDA pValue : hypothesisStored(p, a, result, pValue, se))

\* lines 718-777
oneSampleMean(p, a, xBar, mu0, s, n) ==
  IF F64IsNaN(xBar) THEN Failed("Please enter a valid sample mean")
  ELSE IF F64IsNaN(mu0) THEN Failed("Please enter a valid hypothesized mean")
  ELSE IF F64IsNaN(s) \/ F64Le(s, F64Zero0)
  THEN Failed("Standard deviation must be positive")
  ELSE IF F64IsNaN(n) \/ F64Lt(n, F64Two)
  THEN Failed("Sample size must be at least 2")
  ELSE hypothesisTested(p, a,
                        IF p.sigmaKnowledge = "known"
                        THEN zTestMean(xBar, mu0, s, n)
                        ELSE tTestMean(xBar, mu0, s, n),
                        F64Div(s, F64Sqrt(n)))

\* lines 778-818
oneSampleProportion(p, a, x, n, p0) ==
  IF F64IsNaN(x) \/ F64Lt(x, F64Zero0)
  THEN Failed("Number of successes must be non-negative")
  ELSE IF F64IsNaN(n) \/ F64Lt(n, F64One)
  THEN Failed("Sample size must be positive")
  ELSE IF F64Gt(x, n) THEN Failed("Successes cannot exceed sample size")
  ELSE IF F64IsNaN(p0) \/ F64Le(p0, F64Zero0) \/ F64Ge(p0, F64One)
  THEN Failed("Hypothesized proportion must be between 0 and 1")
  ELSE hypothesisTested(p, a, zTestProportion(F64Div(x, n), p0, n),
                        F64Sqrt(F64Div(F64Mul(p0, F64Sub(F64One, p0)), n)))

\* lines 845-850
twoSampleError(sd1, sd2, size1, size2, equalVariance) ==
  IF equalVariance THEN pooledError(sd1, sd2, size1, size2)
  ELSE F64Sqrt(F64Add(F64Div(F64Mul(sd1, sd1), size1),
                      F64Div(F64Mul(sd2, sd2), size2)))

\* lines 819-869
twoSampleMean(p, a, m1, m2, sd1, sd2, size1, size2) ==
  IF F64IsNaN(m1) \/ F64IsNaN(m2) THEN Failed("Please enter valid sample means")
  ELSE IF F64IsNaN(sd1) \/ F64Le(sd1, F64Zero0) \/ F64IsNaN(sd2)
          \/ F64Le(sd2, F64Zero0)
  THEN Failed("Standard deviations must be positive")
  ELSE IF F64IsNaN(size1) \/ F64Lt(size1, F64Two) \/ F64IsNaN(size2)
          \/ F64Lt(size2, F64Two)
  THEN Failed("Sample sizes must be at least 2")
  ELSE hypothesisTested(p, a,
                        twoSampleTTest(m1, m2, sd1, sd2, size1, size2,
                                       p.equalVariance = "yes"),
                        twoSampleError(sd1, sd2, size1, size2,
                                       p.equalVariance = "yes"))

\* lines 708-870: what handleCalculate leaves in results and error
hypothesisOutcome(p) ==
  LET a == parseFloat64(p.alpha)
  IN  IF F64IsNaN(a) \/ F64Le(a, F64Zero0) \/ F64Ge(a, F64One)
      THEN Failed("Significance level must be between 0 and 1")
      ELSE IF p.testType = "one-sample-mean"
      THEN oneSampleMean(p, a, parseFloat64(p.sampleMean),
                         parseFloat64(p.hypothesizedMean),
                         parseFloat64(p.stdDev), parseInt64(p.sampleSize))
      ELSE IF p.testType = "one-sample-proportion"
      THEN oneSampleProportion(p, a, parseInt64(p.successes),
                               parseInt64(p.proportionN),
                               parseFloat64(p.hypothesizedProportion))
      ELSE twoSampleMean(p, a, parseFloat64(p.mean1), parseFloat64(p.mean2),
                         parseFloat64(p.s1), parseFloat64(p.s2),
                         parseInt64(p.n1), parseInt64(p.n2))

TestTypes == {"one-sample-mean", "one-sample-proportion", "two-sample-mean"}
AlphaItems == {Txt(1, 2), Txt(5, 2), Txt(10, 2)}

\* An input is filled in once, before the first calculation, and after the
\* inputs above it: line is the line of the input in page.tsx, shown is
\* the condition that the page shows the input on.
SetInput(line, shown, field, v) ==
  /\ shown
  /\ hypothesisPage.results = Null /\ hypothesisPage.error = NoError
  /\ hypothesisPage.filled < line
  /\ hypothesisPage' =
       [hypothesisPage EXCEPT ![field] = v, !.filled = line]
  /\ UNCHANGED <<lpVars, callVars, sampleSizePage, anovaPage, intervalPage, layout>>

OfOneMean == hypothesisPage.testType = "one-sample-mean"
OfProportion == hypothesisPage.testType = "one-sample-proportion"
OfTwoMeans == hypothesisPage.testType = "two-sample-mean"

setTestType(v) == SetInput(896, TRUE, "testType", v)
setAlternative(v) == SetInput(910, TRUE, "alternative", v)
setAlpha(v) == SetInput(934, TRUE, "alpha", v)
setManualPValue(v) == SetInput(955, TRUE, "manualPValue", v)
setSigmaKnowledge(v) == SetInput(967, OfOneMean, "sigmaKnowledge", v)
setSampleMean(v) == SetInput(985, OfOneMean, "sampleMean", v)
setHypothesizedMean(v) == SetInput(995, OfOneMean, "hypothesizedMean", v)
setStdDev(v) == SetInput(1007, OfOneMean, "stdDev", v)
setSampleSize(v) == SetInput(1017, OfOneMean, "sampleSize", v)
setSuccesses(v) == SetInput(1034, OfProportion, "successes", v)
setProportionN(v) == SetInput(1044, OfProportion, "proportionN", v)
setHypothesizedProportion(v) ==
  SetInput(1057, OfProportion, "hypothesizedProportion", v)
setEqualVariance(v) == SetInput(1068, OfTwoMeans, "equalVariance", v)
setMean1(v) == SetInput(1091, OfTwoMeans, "mean1", v)
setS1(v) == SetInput(1096, OfTwoMeans, "s1", v)
setN1(v) == SetInput(1100, OfTwoMeans, "n1", v)
setMean2(v) == SetInput(1111, OfTwoMeans, "mean2", v)
setS2(v) == SetInput(1116, OfTwoMeans, "s2", v)
setN2(v) == SetInput(1120, OfTwoMeans, "n2", v)

\* line 1134
handleCalculateHypothesis ==
  /\ hypothesisPage' =
       WithOutcome(hypothesisPage, hypothesisOutcome(hypothesisPage))
  /\ UNCHANGED <<lpVars, callVars, sampleSizePage, anovaPage, intervalPage, layout>>

InitHypothesisPage ==
  /\ PageAsBuilt
  /\ args = Null
  /\ returned = Null

NextHypothesisPage ==
  \/ \E v \in TestTypes : setTestType(v)
  \/ \E v \in Alternatives : setAlternative(v)
  \/ \E v \in AlphaItems : setAlpha(v)
  \/ setManualPValue(Txt(5, 2))
  \/ setSigmaKnowledge("known")
  \/ setSampleMean(Txt(105, 0))
  \/ setHypothesizedMean(Txt(100, 0))
  \/ setStdDev(Txt(15, 0))
  \/ setSampleSize(Txt(25, 0))
  \/ setSuccesses(Txt(60, 0))
  \/ setProportionN(Txt(100, 0))
  \/ setHypothesizedProportion(Txt(5, 1))
  \/ setEqualVariance("yes")
  \/ setMean1(Txt(105, 0))
  \/ setS1(Txt(15, 0))
  \/ setN1(Txt(25, 0))
  \/ setMean2(Txt(100, 0))
  \/ setS2(Txt(12, 0))
  \/ setN2(Txt(30, 0))
  \/ handleCalculateHypothesis

SpecHypothesisPage == InitHypothesisPage /\ [][NextHypothesisPage]_vars

\* C22: the decisions of the hypothesis-test page follow the rule that the
\* page documents: H0 is rejected exactly when the p-value is at most alpha,
\* for the p-value calculated (rejectNull) and for the manual p-value that
\* the page compares it with (manualRejectNull), so that a p-value equal to
\* alpha rejects H0.
C22_DecisionRule ==
  hypothesisPage.results # Null =>
    LET r == hypothesisPage.results[1]
    IN  /\ r.rejectNull <=> F64Le(r.pValue, r.alpha)
        /\ ~r.rejectNull <=> F64Gt(r.pValue, r.alpha)
        /\ r.comparison # Null =>
             (r.comparison[1].manualRejectNull
                <=> F64Le(r.comparison[1].manualPValue, r.alpha))

(***************************************************************************)
(* Confidence intervals (src/unnamed/part_002, lines 107-136).             *)
(***************************************************************************)
\* Math.max and Math.min of two numbers
F64Max(a, b) ==
  IF F64IsNaN(a) THEN a
  ELSE IF F64IsNaN(b) THEN b
  ELSE IF F64IsZero(a) /\ F64IsZero(b) THEN F64Zero(a.neg /\ b.neg)
  ELSE IF F64Lt(a, b) THEN b ELSE a

F64Min(a, b) ==
  IF F64IsNaN(a) THEN a
  ELSE IF F64IsNaN(b) THEN b
  ELSE IF F64IsZero(a) /\ F64IsZero(b) THEN F64Zero(a.neg \/ b.neg)
  ELSE IF F64Lt(b, a) THEN b ELSE a

\* lines 116-118
standardErrorMean(stdDev, n) == F64Div(stdDev, F64Sqrt(n))

\* lines 121-123
standardErrorProportion(p, n) ==
  F64Sqrt(F64Div(F64Mul(p, F64Sub(F64One, p)), n))

\* lines 126-129
confidenceIntervalMean(mean, criticalValue, standardError) ==
  With(F64Mul(criticalValue, standardError), LAMBDA marginOfError :
    <<F64Sub(mean, marginOfError), F64Add(mean, marginOfError)>>)

\* lines 132-136 without Math.max and Math.min
confidenceIntervalUnclamped(proportion, z, n) ==
  With(F64Mul(z, standardErrorProportion(proportion, n)),
       LAMBDA marginOfError :
         <<F64Sub(proportion, marginOfError),
           F64Add(proportion, marginOfError)>>)

\* lines 132-136
confidenceIntervalProportion(proportion, z, n) ==
  With(F64Mul(z, standardErrorProportion(proportion, n)),
       LAMBDA marginOfError :
         <<F64Max(F64Zero0, F64Sub(proportion, marginOfError)),
           F64Min(F64One, F64Add(proportion, marginOfError))>>)

(***************************************************************************)
(* Calls of confidenceIntervalProportion.                                  *)
(***************************************************************************)
IntervalP ==
  {F64OfDec(d, 2) : d \in {0, 1, 10, 30, 50, 60, 90, 99, 100}}
    \cup {F64OfDec(1, 9)}
IntervalZ == {F64OfDec(d, 3) : d \in {0, 1440, 1960, 2576, 10000}}
IntervalN == {F64OfInt(n) : n \in {1, 2, 30, 1000}}

InitInterval ==
  /\ PageAsBuilt
  /\ \E p \in IntervalP, z \in IntervalZ, n \in IntervalN :
       args = [fn |-> "confidenceIntervalProportion", proportion |-> p,
               z |-> z, n |-> n]
  /\ returned = <<>>

callIntervalProportion ==
  /\ returned = <<>>
  /\ returned' =
       <<confidenceIntervalProportion(args.proportion, args.z, args.n)>>
  /\ UNCHANGED <<args, lpVars, pages>>

NextInterval == callIntervalProportion

SpecInterval == InitInterval /\ [][NextInterval]_vars

\* C23: for p in [0,1], z >= 0 and n >= 1, confidenceIntervalProportion
\* returns [lower, upper] with lower = max(0, p - z * SE), upper =
\* min(1, p + z * SE), SE = sqrt(p * (1 - p) / n), and
\* 0 <= lower <= p <= upper <= 1.
C23_IntervalInUnit ==
  returned # <<>> =>
    LET p == args.proportion
        margin == F64Mul(args.z, F64Sqrt(F64Div(F64Mul(p, F64Sub(F64One, p)),
                                                args.n)))
        lower == returned[1][1]
        upper == returned[1][2]
    IN  /\ lower = F64Max(F64Zero0, F64Sub(p, margin))
        /\ upper = F64Min(F64One, F64Add(p, margin))
        /\ F64Le(F64Zero0, lower) /\ F64Le(lower, p)
        /\ F64Le(p, upper) /\ F64Le(upper, F64One)

\* p = 0.01, z = 1.96, n = 30: the lower bound is cut off at 0
C23_Witness ==
  /\ returned # <<>>
  /\ args.proportion = F64OfDec(1, 2)
  /\ args.z = F64OfDec(1960, 3)
  /\ args.n = F64OfInt(30)
  /\ F64IsZero(returned[1][1])
  /\ F64Lt(args.proportion, returned[1][2])
  /\ F64Lt(returned[1][2], F64One)

(***************************************************************************)
(* The confidence-interval page (src/app/confidence-interval/page.tsx,     *)
(* lines 1-570).                                                           *)
(***************************************************************************)
\* lines 108-113 of src/unnamed/part_002, isSample = true
calculateStdDev(data) ==
  With(calculateMean(data), LAMBDA mean :
    F64Sqrt(F64Div(F64SumSquares(data, mean), F64OfInt(Len(data) - 1))))

\* Number.isInteger
F64IsInteger(x) == F64IsFinite(x) /\ F64Ceil(x) = x

\* lines 139-167: count is the whole number n
meanInterval(p, z, mean, stdDev, count, criticalValue) ==
  With(standardErrorMean(stdDev, F64OfInt(count)), LAMBDA se :
    With(confidenceIntervalMean(mean, criticalValue, se), LAMBDA bounds :
      Stored([type |-> "mean", mean |-> mean, stdDev |-> stdDev,
              n |-> F64OfInt(count), standardError |-> se,
              criticalValue |-> criticalValue,
              criticalType |-> IF p.sigmaKnowledge = "known" THEN "z" ELSE "t",
              marginOfError |-> F64Mul(criticalValue, se),
              lowerBound |-> bounds[1], upperBound |-> bounds[2],
              confidenceLevel |-> p.confidenceLevel])))

\* lines 144-151: df = n - 1
criticalValueOf(p, z, count) ==
  IF p.sigmaKnowledge = "known" THEN z
  ELSE F64OfDec(getTCritical(1000 * (count - 1), p.confidenceLevel), 3)

\* lines 101-115
rawMean(p, z, data) ==
  IF Len(data) < 2 THEN Failed("Please enter at least 2 data points")
  ELSE IF p.sigmaKnowledge = "known"
          /\ (F64IsNaN(parseFloat64(p.populationSigma))
              \/ F64Le(parseFloat64(p.populationSigma), F64Zero0))
  THEN Failed("Please enter a valid population standard deviation")
  ELSE meanInterval(p, z, calculateMean(data),
                    IF p.sigmaKnowledge = "known"
                    THEN parseFloat64(p.populationSigma)
                    ELSE calculateStdDev(data),
                    Len(data), criticalValueOf(p, z, Len(data)))

\* the whole number that the text t is the decimal of
WholeOf(t) == t.digits \div (10 ^ t.decimals)

\* lines 116-137
summaryMean(p, z, mean, n, stdDev) ==
  IF F64IsNaN(mean) THEN Failed("Please enter a valid sample mean")
  ELSE IF F64IsNaN(n) \/ F64Lt(n, F64Two) \/ ~F64IsInteger(n)
  THEN Failed("Sample size must be an integer >= 2")
  ELSE IF F64IsNaN(stdDev) \/ F64Le(stdDev, F64Zero0)
  THEN Failed("Please enter a valid standard deviation")
  ELSE meanInterval(p, z, mean, stdDev, WholeOf(p.sampleSize),
                    criticalValueOf(p, z, WholeOf(p.sampleSize)))

\* lines 188-203
proportionInterval(p, z, x, n) ==
  With(F64Div(x, n), LAMBDA proportion :
    With(standardErrorProportion(proportion, n), LAMBDA se :
      With(confidenceIntervalProportion(proportion, z, n), LAMBDA bounds :
        Stored([type |-> "proportion", proportion |-> proportion,
                successes |-> x, n |-> n, standardError |-> se,
                criticalValue |-> z, marginOfError |-> F64Mul(z, se),
                lowerBound |-> bounds[1], upperBound |-> bounds[2],
                confidenceLevel |-> p.confidenceLevel]))))

\* lines 170-203
proportionChecked(p, z, x, n) ==
  IF F64IsNaN(x) \/ F64Lt(x, F64Zero0) \/ ~F64IsInteger(x)
  THEN Failed("Number of successes must be a non-negative integer")
  ELSE IF F64IsNaN(n) \/ F64Lt(n, F64One) \/ ~F64IsInteger(n)
  THEN Failed("Sample size must be a positive integer")
  ELSE IF F64Gt(x, n)
  THEN Failed("Number of successes cannot exceed sample size")
  ELSE proportionInterval(p, z, x, n)

\* lines 84-204: what handleCalculate leaves in results and error
intervalOutcome(p) ==
  IF p.confidenceLevel \notin DOMAIN Z_SCORES \/ Z_SCORES[p.confidenceLevel] = 0
  THEN Failed("Invalid confidence level")
  ELSE LET z == F64OfDec(Z_SCORES[p.confidenceLevel], 3)
       IN  IF p.statisticType = "mean" /\ p.inputMode = "raw"
           THEN rawMean(p, z, parseDataInput(p.rawData))
           ELSE IF p.statisticType = "mean"
           THEN summaryMean(p, z, parseFloat64(p.sampleMean),
                            parseFloat64(p.sampleSize),
                            parseFloat64(IF p.sigmaKnowledge = "known"
                                         THEN p.populationSigma
                                         ELSE p.sampleStdDev))
           ELSE proportionChecked(p, z, parseFloat64(p.successes),
                                  parseFloat64(p.proportionN))

\* An input is filled in once, before the first calculation, and after the
\* inputs above it: line is the line of the input in page.tsx, shown is
\* the condition that the page shows the input on.
SetIntervalInput(line, shown, field, v) ==
  /\ shown
  /\ intervalPage.results = Null /\ intervalPage.error = NoError
  /\ intervalPage.filled < line
  /\ intervalPage' = [intervalPage EXCEPT ![field] = v, !.filled = line]
  /\ UNCHANGED <<lpVars, callVars, sampleSizePage, anovaPage, hypothesisPage, layout>>

OfMean == intervalPage.statisticType = "mean"
OfSummary == OfMean /\ intervalPage.inputMode = "summary"
OfRaw == OfMean /\ intervalPage.inputMode = "raw"
OfKnown == OfMean /\ intervalPage.sigmaKnowledge = "known"
OfSample == OfSummary /\ intervalPage.sigmaKnowledge = "unknown"

setStatisticType(v) == SetIntervalInput(227, TRUE, "statisticType", v)
setIntervalLevel(v) == SetIntervalInput(240, TRUE, "confidenceLevel", v)
setInputMode(v) == SetIntervalInput(256, OfMean, "inputMode", v)
setIntervalMean(v) == SetIntervalInput(269, OfSummary, "sampleMean", v)
setIntervalSize(v) == SetIntervalInput(280, OfSummary, "sampleSize", v)
setRawData(v) == SetIntervalInput(291, OfRaw, "rawData", v)
setIntervalSigma(v) == SetIntervalInput(301, OfMean, "sigmaKnowledge", v)
setPopulationSigma(v) == SetIntervalInput(320, OfKnown, "populationSigma", v)
setSampleStdDev(v) == SetIntervalInput(332, OfSample, "sampleStdDev", v)
setIntervalSuccesses(v) == SetIntervalInput(347, ~OfMean, "successes", v)
setIntervalN(v) == SetIntervalInput(358, ~OfMean, "proportionN", v)

\* line 373
handleCalculateInterval ==
  /\ intervalPage' = WithOutcome(intervalPage, intervalOutcome(intervalPage))
  /\ UNCHANGED <<lpVars, callVars, sampleSizePage, anovaPage, hypothesisPage, layout>>

RawTexts ==
  {<<Txt(5, 0), Txt(5, 0), Txt(5, 0)>>, <<Txt(1, 0), Txt(2, 0), Txt(4, 0)>>,
   <<Txt(7, 0)>>}
DeviationTexts == {Txt(15, 0), Txt(0, 0), Txt(-2, 0)}

InitIntervalPage ==
  /\ PageAsBuilt
  /\ args = Null
  /\ returned = Null

NextIntervalPage ==
  \/ setStatisticType("proportion")
  \/ \E v \in {90, 99} : setIntervalLevel(v)
  \/ setInputMode("raw")
  \/ setIntervalMean(Txt(100, 0))
  \/ \E v \in {Txt(25, 0), Txt(25, 1), Txt(1, 0)} : setIntervalSize(v)
  \/ \E v \in RawTexts : setRawData(v)
  \/ setIntervalSigma("known")
  \/ \E v \in DeviationTexts : setPopulationSigma(v)
  \/ \E v \in DeviationTexts : setSampleStdDev(v)
  \/ \E v \in {Txt(60, 0), Txt(200, 0)} : setIntervalSuccesses(v)
  \/ setIntervalN(Txt(100, 0))
  \/ handleCalculateInterval

SpecIntervalPage == InitIntervalPage /\ [][NextIntervalPage]_vars

\* C24: the confidence-interval page never computes an interval of a mean
\* from a standard deviation that is not positive: in every input mode, a
\* standard deviation <= 0 gives an error and no result.
C24_PositiveDeviation ==
  (intervalPage.results # Null /\ intervalPage.results[1].type = "mean") =>
    F64Gt(intervalPage.results[1].stdDev, F64Zero0)

(***************************************************************************)
(* Ties and duplicates among the vertices of the linear-programming page.  *)
(***************************************************************************)
\* lines 158-184 on the form: the feasible intersections in the order of the
\* pairs (i, j), i < j, and those of them that removeDuplicates keeps
FeasibleInOrder ==
  feasibleFrom(candidatePointsOf(allLinesOf(parsedOf)), 1, parsedOf, cxOf, cyOf)
UniqueInOrder == removeDuplicates(FeasibleInOrder, 1, <<>>)

StrictlyBetter(optType, p, q) ==
  IF optType = "maximize" THEN QGt(p.objectiveValue, q.objectiveValue)
  ELSE QLt(p.objectiveValue, q.objectiveValue)

\* the vertex of index k is the first of the vertices in enumeration order
\* whose objective no vertex is strictly better than
FirstExtremal(optType, points, k) ==
  /\ \A j \in 1..Len(points) : ~StrictlyBetter(optType, points[j], points[k])
  /\ \A j \in 1..(k - 1) : StrictlyBetter(optType, points[k], points[j])

TiedOptimum(r) ==
  Cardinality({p \in Reported(r) : QEq(p.objectiveValue, r.optimalValue)}) > 1

\* C25: when several feasible vertices share the extremal objective, the
\* vertex handleCalculate marks as optimal is the one found first in the
\* order of the pairwise intersections (i, j), i < j, of the lines x = 0,
\* y = 0, constraint 1, ..., constraint n: a later vertex replaces the
\* current optimum only if its objective is strictly better.
C25_FirstFoundWins ==
  [][(CalcStep /\ results' # Null) =>
       \E k \in 1..Len(UniqueInOrder) :
         /\ FirstExtremal(optimizationType, UniqueInOrder, k)
         /\ results'[1].optimalX = UniqueInOrder[k].x
         /\ results'[1].optimalY = UniqueInOrder[k].y
         /\ results'[1].optimalValue = UniqueInOrder[k].objectiveValue
         /\ \A p \in Flagged(results'[1]) :
              p.x = UniqueInOrder[k].x /\ p.y = UniqueInOrder[k].y]_lpVars

\* maximize 2x + 2y subject to x + y <= 4, 2x + y <= 6: (0, 4), found as
\* the intersection of x = 0 and constraint 1, and (2, 2), found last, tie
C25_Witness ==
  /\ results # Null /\ ParsedOK
  /\ TiedOptimum(results[1])
  /\ optimizationType = "maximize"
  /\ QEq(results[1].optimalValue, QInt(8))
  /\ QEq(results[1].optimalX, QInt(0)) /\ QEq(results[1].optimalY, QInt(4))
  /\ \E p \in Reported(results[1]) :
       ~p.isOptimal /\ QEq(p.x, QInt(2)) /\ QEq(p.y, QInt(2))

\* within 1e-6 in both coordinates, as line 180 compares
Within(p, q) ==
  /\ QLt(QAbs(QSub(p.x, q.x)), oneEMinus6)
  /\ QLt(QAbs(QSub(p.y, q.y)), oneEMinus6)

\* the intersections that pass isFeasible, as findIntersection gave them
FeasibleCandidates == {q \in Candidates : isFeasible(q.x, q.y, parsedOf)}

FeasibleClamped == {FeasibleInOrder[k] : k \in 1..Len(FeasibleInOrder)}

ErrorShownOn(tab) == anovaPage.error # NoError /\ anovaPage.activeTab = tab

\* C27: on the ANOVA & Regression page an error message is displayed on a
\* tab only if the latest calculation attempted on that tab failed: it is
\* never displayed on a tab next to the results that the tab's latest
\* calculation stored.
C27_ErrorOfItsTab ==
  /\ ErrorShownOn("anova") => anovaPage.anovaResults = Null
  /\ ErrorShownOn("regression") => anovaPage.regressionResults = Null

(***************************************************************************)
(* The mobile menu of CalculatorLayout (src/components/                    *)
(* calculator-layout.tsx) and the effect of AppSidebar that closes it      *)
(* (src/components/app-sidebar.tsx, lines 180-195).  Every page renders    *)
(* its own CalculatorLayout, so a change of the route mounts a new one.    *)
(* An effect runs after the render it belongs to and before the next       *)
(* render; a click may come between the two.                               *)
(***************************************************************************)
MaxRenders == 4

\* lines 23-53 of app-sidebar.tsx
Routes ==
  {"/sample-size", "/confidence-interval", "/hypothesis-test",
   "/seasonal-index", "/anova-regression", "/linear-programming"}

LayoutStep == UNCHANGED <<lpVars, callVars, sampleSizePage, anovaPage, hypothesisPage, intervalPage>>

\* the dependencies [pathname, onClose] of the effect, line 194
depsNow == <<layout.pathname, layout.onClose>>

\* the effect of the last render has run
EffectsFlushed == layout.rendered > 0 /\ layout.deps = depsNow

\* a render of CalculatorLayout and its AppSidebar: after the mount, after
\* mobileMenuOpen changed, or with the page that holds the layout
render ==
  /\ layout.rendered = 0 \/ EffectsFlushed
  /\ layout.rendered < MaxRenders
  /\ layout' = [layout EXCEPT !.rendered = @ + 1, !.shown = layout.mobileMenuOpen,
                              !.onClose = layout.rendered + 1]
  /\ LayoutStep

\* lines 190-194 of app-sidebar.tsx: the effect runs when pathname or
\* onClose is not the one it last ran with, and calls onClose (line 49)
closeOnChange ==
  /\ layout.rendered > 0
  /\ layout.deps # depsNow
  /\ layout' = [layout EXCEPT !.mobileMenuOpen = FALSE, !.deps = depsNow]
  /\ LayoutStep

\* line 40: onClick={() => setMobileMenuOpen(!mobileMenuOpen)}
clickMenuButton ==
  /\ layout.rendered > 0
  /\ layout' = [layout EXCEPT !.mobileMenuOpen = ~layout.shown]
  /\ LayoutStep

\* lines 52-58: the backdrop is there when the render read mobileMenuOpen true
clickBackdrop ==
  /\ layout.rendered > 0
  /\ layout.shown
  /\ layout' = [layout EXCEPT !.mobileMenuOpen = FALSE]
  /\ LayoutStep

\* a link of the sidebar: the page of the route mounts its CalculatorLayout
navigate(pathname) ==
  /\ layout.rendered > 0
  /\ pathname # layout.pathname
  /\ layout' = MountedAt(pathname)
  /\ LayoutStep

InitLayout ==
  /\ PageAsBuilt
  /\ args = Null
  /\ returned = Null

NextLayout ==
  \/ render
  \/ closeOnChange
  \/ clickMenuButton
  \/ clickBackdrop
  \/ \E pathname \in Routes : navigate(pathname)

SpecLayout == InitLayout /\ [][NextLayout]_vars

\* C28: mobileMenuOpen changes from true to false only in response to a
\* click on the menu button, a click on the backdrop or a change of the
\* route: while none of the three occurs an open menu stays open, whatever
\* the number of renders.
C28_ClosedByEvent ==
  [][(layout.mobileMenuOpen /\ ~layout'.mobileMenuOpen) =>
       \/ clickMenuButton
       \/ clickBackdrop
       \/ layout'.pathname # layout.pathname]_vars

\* lines 477-483: the indices i of the series, counted from 0, that give
\* the season s a ratio
RatiosOfSeason(ratios, periodsPerSeason, s) ==
  {i \in 0..(Len(ratios) - 1) : i % periodsPerSeason = s /\ ratios[i + 1] # Null}

\* C29: for a series of n >= 2 * P values, P >= 2, even or odd, each of
\* the P positions in the cycle (i mod P) receives at least one ratio that
\* is not null, so that the raw index 1 of a position without ratios is
\* never taken on a series that the seasonal page accepts.
C29_EverySeasonHasRatio ==
  (/\ returned # <<>>
   /\ args.periodsPerSeason >= 2
   /\ Len(args.data) >= 2 * args.periodsPerSeason) =>
    \A s \in 0..(args.periodsPerSeason - 1) :
      RatiosOfSeason(returned[1].ratios, args.periodsPerSeason, s) # {}

\* two seasons of three periods: the ratios are at 1..4, one for each of
\* the positions 0 and 2, two for the position 1
C29_Witness ==
  /\ returned # <<>>
  /\ args.periodsPerSeason = 3
  /\ Len(args.data) = 6
  /\ RatiosOfSeason(returned[1].ratios, 3, 0) = {3}
  /\ RatiosOfSeason(returned[1].ratios, 3, 1) = {1, 4}
  /\ RatiosOfSeason(returned[1].ratios, 3, 2) = {2}

(***************************************************************************)
(* Calls of finitePopulationCorrection with whole numbers 1 <= n0 <= N,    *)
(* as the sample-size page calls it (src/unnamed/part_001, lines 80-86).   *)
(***************************************************************************)
MaxPopulation == 12

PopulationSizes == 1..MaxPopulation \cup {1000, 1000000, 2147483647}

InitCorrection ==
  /\ PageAsBuilt
  /\ \E N \in PopulationSizes, n0 \in PopulationSizes :
       /\ n0 <= N
       /\ args = [fn |-> "finitePopulationCorrection", n0 |-> n0, N |-> N]
  /\ returned = <<>>

callFinitePopulationCorrection ==
  /\ returned = <<>>
  /\ returned' = <<finitePopulationCorrection(F64OfInt(args.n0), F64OfInt(args.N))>>
  /\ UNCHANGED <<args, lpVars, pages>>

NextCorrection == callFinitePopulationCorrection

SpecCorrection == InitCorrection /\ [][NextCorrection]_vars

\* C30: for whole numbers n0 and N with 1 <= n0 <= N,
\* finitePopulationCorrection(n0, N) is a whole number n with
\* 1 <= n <= n0: the correction never increases the sample size and never
\* exceeds the population size.
C30_CorrectionShrinks ==
  returned # <<>> =>
    /\ F64IsInteger(returned[1])
    /\ F64Le(F64One, returned[1])
    /\ F64Le(returned[1], F64OfInt(args.n0))
    /\ F64Le(returned[1], F64OfInt(args.N))

\* n0 = 10 of a population of 12: ceil(10 / 1.75) = 6
C30_Witness ==
  /\ args.n0 = 10 /\ args.N = 12
  /\ returned = <<F64OfInt(6)>>

=============================================================================
